---- MODULE Spec2Model ----
(***************************************************************************)
(* The EventSub chat bot (src/bot): the event session of eventsub_bot.py,  *)
(* the chat-message bridge of app.py and handlers.py, the command registry *)
(* of commands/registry.py and the builtin commands of                     *)
(* commands/builtins.py.                                                   *)
(*                                                                         *)
(* A Python str is a finite sequence of one-character strings; None is the *)
(* sentinel NoneVal, which is no such sequence.  Texts a handler builds    *)
(* from a constant and a generated part are the concatenation of a         *)
(* one-element sequence naming the constant and the generated part.        *)
(***************************************************************************)
EXTENDS Integers, Sequences, FiniteSets, TLC

VARIABLES
    state,              \* where start()/_run_ws_loop() stands
    fault,              \* why the session ended, "none" while it has not
    channel_logins,     \* self.channel_logins
    login_to_id,        \* self._login_to_id
    ws,                 \* self._ws is held
    session_id,         \* self._session_id
    sub_ids,            \* self._sub_ids
    sub_requests,       \* subscription requests issued, in order
    first_frame,        \* message type of the first frame read, "none" before
    sub_outcomes,       \* what the platform answered each subscription request
    active,             \* self._active
    suppress_when_live, \* self._suppress_when_live
    live_cache,         \* self._live_cache
    now,                \* time.time()
    last,               \* what the last loop iteration did
    handlers,           \* registry._handlers
    prefixes,           \* registry._prefixes
    hist,               \* BuiltinCommands.recent_*
    reg_last,           \* what the last direct registry call did
    pushed,             \* every text a generative command got, per command
    lookups,            \* the last status lookup answered, per channel id
    resolve_log,        \* the user lookups start() made and the logins it reported
    loop,               \* the receive loop step by step: frames waiting, position
    shutdown,           \* what the shutdown of run() did
    main                \* the historical bot of main.py: its flag, tasks and replies

vars == <<state, fault, channel_logins, login_to_id, ws, session_id, sub_ids,
          sub_requests, first_frame, sub_outcomes, active, suppress_when_live,
          live_cache, now, last, handlers, prefixes, hist, reg_last, pushed,
          lookups, resolve_log, loop, shutdown, main>>

sessionVars == <<state, fault, channel_logins, login_to_id, ws, session_id,
                 sub_ids, sub_requests, first_frame, sub_outcomes, active,
                 suppress_when_live, live_cache, now, last, resolve_log, loop,
                 shutdown, main>>

(***************************************************************************)
(* Bounds of the model.                                                    *)
(***************************************************************************)
MaxGenerated == 1
MaxClock == 15
MaxTextLen == 2
MaxCapacity == 3
MaxPushes == 4
MaxFrames == 4
MaxMessages == 4

(***************************************************************************)
(* Python values.                                                          *)
(***************************************************************************)
NoneVal == <<"<None>">>

Truthy(s) == s # NoneVal /\ s # <<>>

\* str.isspace(), for the characters the model writes.
IsSpace(c) == c \in {" ", "\t"}

LowerChar(c) ==
    CASE c = "A" -> "a"
      [] c = "B" -> "b"
      [] OTHER -> c

Lower(s) == [i \in 1..Len(s) |-> LowerChar(s[i])]

RECURSIVE LStrip(_)
LStrip(s) ==
    IF s # <<>> /\ IsSpace(Head(s)) THEN LStrip(Tail(s)) ELSE s

RECURSIVE RStrip(_)
RStrip(s) ==
    IF s # <<>> /\ IsSpace(s[Len(s)]) THEN RStrip(SubSeq(s, 1, Len(s) - 1)) ELSE s

Strip(s) == RStrip(LStrip(s))

StartsWith(s, p) == Len(p) <= Len(s) /\ SubSeq(s, 1, Len(p)) = p

\* The index of the first whitespace character of s at or after i, Len(s)+1
\* when there is none.
RECURSIVE NextSpace(_, _)
NextSpace(s, i) ==
    IF i > Len(s) \/ IsSpace(s[i]) THEN i ELSE NextSpace(s, i + 1)

\* The token that ends before index cut and what follows its whitespace.
TokenAndRest(first, tail) ==
    IF tail = <<>> THEN <<first>> ELSE <<first, tail>>

\* A faulty split, on one space and not on a run of whitespace: what
\* follows the token keeps its leading whitespace.
SplitAtOneSpace(body, cut) ==
    TokenAndRest(SubSeq(body, 1, cut - 1), SubSeq(body, cut + 1, Len(body)))

SplitAt(body, cut) ==
    TokenAndRest(SubSeq(body, 1, cut - 1), LStrip(SubSeq(body, cut, Len(body))))

SplitBody(body) ==
    IF body = <<>> THEN <<>> ELSE SplitAt(body, NextSpace(body, 1))

\* s.split(None, 1): the first token and, when something other than
\* whitespace follows it, the remainder as it stands.
SplitFirst(s) == SplitBody(LStrip(s))

RECURSIVE SeqsUpTo(_, _)
SeqsUpTo(S, n) ==
    IF n = 0 THEN {<<>>}
    ELSE LET shorter == SeqsUpTo(S, n - 1)
         IN  shorter \cup {Append(s, c) : s \in shorter, c \in S}

(***************************************************************************)
(* CommandRegistry.                                                        *)
(***************************************************************************)
NoHandlers == [k \in {} |-> "none"]

MapPut(m, k, v) == [x \in DOMAIN m \cup {k} |-> IF x = k THEN v ELSE m[x]]

\* A faulty key: trimmed, its case kept.
KeyCaseKept(name) == Strip(name)

\* name.strip().lower()
Key(name) == Lower(Strip(name))

RegisterKey(hs, key, h) ==
    IF key = <<>>
    THEN [error |-> "ValueError", handlers |-> hs]
    ELSE [error |-> "none", handlers |-> MapPut(hs, key, h)]

\* register(name, handler): [error, handlers]
Register(hs, name, h) == RegisterKey(hs, Key(name), h)

\* A faulty add_alias: it reads the target with dict.get and stores what it
\* got, None for a target that is not registered.
AddAliasKeyUnchecked(hs, alias_key, target_key) ==
    IF target_key \notin DOMAIN hs
    THEN [error |-> "none", handlers |-> MapPut(hs, alias_key, "none")]
    ELSE [error |-> "none", handlers |-> MapPut(hs, alias_key, hs[target_key])]

AddAliasKey(hs, alias_key, target_key) ==
    IF target_key \notin DOMAIN hs
    THEN [error |-> "KeyError", handlers |-> hs]
    ELSE [error |-> "none", handlers |-> MapPut(hs, alias_key, hs[target_key])]

\* add_alias(alias, target): [error, handlers]
AddAlias(hs, alias, target) == AddAliasKey(hs, Key(alias), Key(target))

\* A faulty prefix scan: the longest configured prefix the text starts with.
FirstPrefixLongest(ps, text) ==
    IF \E i \in 1..Len(ps) : StartsWith(text, ps[i])
    THEN CHOOSE i \in 1..Len(ps) :
            /\ StartsWith(text, ps[i])
            /\ \A j \in 1..Len(ps) :
                  StartsWith(text, ps[j]) => Len(ps[j]) <= Len(ps[i])
    ELSE 0

\* The first configured prefix the text starts with, 0 when there is none.
FirstPrefix(ps, text) ==
    IF \E i \in 1..Len(ps) : StartsWith(text, ps[i])
    THEN CHOOSE i \in 1..Len(ps) :
            /\ StartsWith(text, ps[i])
            /\ \A j \in 1..(i - 1) : ~StartsWith(text, ps[j])
    ELSE 0

NoMatch == [cmd |-> NoneVal, arg |-> <<>>]

ParseParts(parts) ==
    [cmd |-> Lower(parts[1]), arg |-> IF Len(parts) > 1 THEN parts[2] ELSE <<>>]

\* A faulty parse: a bare prefix gives the empty command, not None.
ParseRestEmptyCommand(rest) ==
    IF rest = <<>> THEN [cmd |-> <<>>, arg |-> <<>>]
    ELSE ParseParts(SplitFirst(rest))

ParseRest(rest) ==
    IF rest = <<>> THEN NoMatch ELSE ParseParts(SplitFirst(rest))

ParseAfter(ps, text, i) ==
    IF i = 0 THEN NoMatch
    ELSE ParseRest(Strip(SubSeq(text, Len(ps[i]) + 1, Len(text))))

\* parse(text): [cmd, arg], cmd = NoneVal for no command
Parse(ps, text) ==
    IF ~Truthy(text) THEN NoMatch ELSE ParseAfter(ps, text, FirstPrefix(ps, text))

\* ord(c) of the characters names are made of.
Ord(c) ==
    CASE c = "\t" -> 9
      [] c = " " -> 32
      [] c = "$" -> 36
      [] c = "A" -> 65
      [] c = "a" -> 97

\* a < b on str: the first differing character decides, a proper prefix
\* is smaller.
RECURSIVE StrLess(_, _)
StrLess(a, b) ==
    IF b = <<>> THEN FALSE
    ELSE IF a = <<>> THEN TRUE
    ELSE IF Head(a) = Head(b) THEN StrLess(Tail(a), Tail(b))
    ELSE Ord(Head(a)) < Ord(Head(b))

\* sorted(keys)
RECURSIVE Sorted(_)
Sorted(keys) ==
    IF keys = {} THEN <<>>
    ELSE LET least == CHOOSE k \in keys : \A o \in keys \ {k} : StrLess(k, o)
         IN  <<least>> \o Sorted(keys \ {least})

\* A faulty list_commands(): the keys come largest first.
ListCommandsDescending(hs) ==
    LET up == Sorted(DOMAIN hs)
    IN  [i \in 1..Len(up) |-> up[Len(up) + 1 - i]]

\* list_commands()
ListCommands(hs) == Sorted(DOMAIN hs)

(***************************************************************************)
(* The generative backend, as the builtin commands see it: what one call   *)
(* of chat() and of image() gives.  Raise stands for the call raising.     *)
(***************************************************************************)
Raise == <<"<raise>">>

GeneratedText == <<"t", "1">>

ChatOutcomes == {GeneratedText, <<>>, NoneVal, Raise}

HostedUrl == <<"h", "t", "t", "p", ":", "x">>

LocalPath == <<"l", "o", "g", "s", "/", "x">>

ImageError == <<"Image generation failed.">>

ImageOutcomes ==
    { [result |-> HostedUrl, err |-> NoneVal, raises |-> FALSE],
      [result |-> LocalPath, err |-> NoneVal, raises |-> FALSE],
      [result |-> NoneVal, err |-> ImageError, raises |-> FALSE],
      [result |-> HostedUrl, err |-> ImageError, raises |-> FALSE],
      [result |-> NoneVal, err |-> NoneVal, raises |-> FALSE],
      [result |-> NoneVal, err |-> NoneVal, raises |-> TRUE] }

Backends == [chat : ChatOutcomes, image : ImageOutcomes]

(***************************************************************************)
(* BuiltinCommands.                                                        *)
(***************************************************************************)
MaxHistory == 10

\* BuiltinCommands(openai_service, max_history): four empty deques of
\* that maxlen.
NewHist(max_history) ==
    [joke |-> <<>>, story |-> <<>>, trivia |-> <<>>, nickname |-> <<>>,
     maxlen |-> max_history]

EmptyHist == NewHist(MaxHistory)

\* How many outputs the histories hold.
Generated(h) == Len(h.joke) + Len(h.story) + Len(h.trivia) + Len(h.nickname)

\* A faulty deque: at capacity it drops the entry pushed, not the oldest.
HistAppendDropsNewest(q, x, maxlen) ==
    IF Len(q) >= maxlen THEN q ELSE Append(q, x)

\* deque(maxlen=maxlen).append(x)
HistAppend(q, x, maxlen) ==
    IF maxlen = 0 THEN q
    ELSE IF Len(q) >= maxlen THEN Append(Tail(q), x)
    ELSE Append(q, x)

AboutReply == <<"about-text">>

InputsReply == <<"inputs-text">>

TouchgrassReply == <<"touchgrass-text">>

ImageUsageReply == <<"image-usage-hint">>

NoImageReply == <<"no-image-returned">>

\* A faulty text command: every kind records its text as a joke.
TextCommandOneHistory(kind, label, h, ai) ==
    IF ai.chat = Raise
    THEN [raised |-> TRUE, reply |-> NoneVal, hist |-> h, calls |-> 1]
    ELSE IF Truthy(ai.chat)
    THEN [raised |-> FALSE,
          reply |-> label \o ai.chat,
          hist |-> [h EXCEPT !.joke = HistAppend(h.joke, ai.chat, h.maxlen)],
          calls |-> 1]
    ELSE [raised |-> FALSE,
          reply |-> IF kind = "joke" THEN ai.chat ELSE NoneVal,
          hist |-> h, calls |-> 1]

\* One generative text command: [raised, reply, hist, calls].  label is the
\* constant the reply starts with, <<>> for joke, which returns the text
\* as it is.
TextCommand(kind, label, h, ai) ==
    IF ai.chat = Raise
    THEN [raised |-> TRUE, reply |-> NoneVal, hist |-> h, calls |-> 1]
    ELSE IF Truthy(ai.chat)
    THEN [raised |-> FALSE,
          reply |-> label \o ai.chat,
          hist |-> [h EXCEPT ![kind] = HistAppend(h[kind], ai.chat, h.maxlen)],
          calls |-> 1]
    ELSE [raised |-> FALSE,
          reply |-> IF kind = "joke" THEN ai.chat ELSE NoneVal,
          hist |-> h, calls |-> 1]

\* A faulty image(): it looks at the result before it looks at the error.
ImageReplyResultFirst(out) ==
    IF Truthy(out.result) /\ StartsWith(out.result, <<"h", "t", "t", "p">>)
    THEN <<"creation: ">> \o out.result
    ELSE IF Truthy(out.result) THEN <<"saved locally: ">> \o out.result
    ELSE IF Truthy(out.err) THEN <<"error: ">> \o out.err
    ELSE NoImageReply

\* What image() answers once the backend has been called.
ImageReply(out) ==
    IF Truthy(out.err) THEN <<"error: ">> \o out.err
    ELSE IF Truthy(out.result) /\ StartsWith(out.result, <<"h", "t", "t", "p">>)
    THEN <<"creation: ">> \o out.result
    ELSE IF Truthy(out.result) THEN <<"saved locally: ">> \o out.result
    ELSE NoImageReply

\* A faulty image(): it asks the backend before it looks at the description.
ImageCommandCallsFirst(h, arg, ai) ==
    IF ai.image.raises
    THEN [raised |-> TRUE, reply |-> NoneVal, hist |-> h, calls |-> 1]
    ELSE IF ~Truthy(Strip(arg))
    THEN [raised |-> FALSE, reply |-> ImageUsageReply, hist |-> h, calls |-> 1]
    ELSE [raised |-> FALSE, reply |-> ImageReply(ai.image), hist |-> h, calls |-> 1]

\* image(ctx, arg): [raised, reply, hist, calls]; calls counts the calls of
\* the backend.
ImageCommand(h, arg, ai) ==
    IF ~Truthy(Strip(arg))
    THEN [raised |-> FALSE, reply |-> ImageUsageReply, hist |-> h, calls |-> 0]
    ELSE IF ai.image.raises
    THEN [raised |-> TRUE, reply |-> NoneVal, hist |-> h, calls |-> 1]
    ELSE [raised |-> FALSE, reply |-> ImageReply(ai.image), hist |-> h, calls |-> 1]

\* about, inputs, touchgrass: a constant, no state, no backend call.
Constant(reply, h) ==
    [raised |-> FALSE, reply |-> reply, hist |-> h, calls |-> 0]

\* The handler bound under id: [raised, reply, hist, calls]
Handler(id, h, arg, ai) ==
    CASE id = "about" -> Constant(AboutReply, h)
      [] id = "inputs" -> Constant(InputsReply, h)
      [] id = "touchgrass" -> Constant(TouchgrassReply, h)
      [] id = "joke" -> TextCommand("joke", <<>>, h, ai)
      [] id = "nickname" -> TextCommand("nickname", <<"nickname: ">>, h, ai)
      [] id = "story" -> TextCommand("story", <<"story: ">>, h, ai)
      [] id = "trivia" -> TextCommand("trivia", <<"trivia: ">>, h, ai)
      [] id = "image" -> ImageCommand(h, arg, ai)

BuiltinNames ==
    << <<"a", "b", "o", "u", "t">>,
       <<"i", "n", "p", "u", "t", "s">>,
       <<"j", "o", "k", "e">>,
       <<"n", "i", "c", "k", "n", "a", "m", "e">>,
       <<"s", "t", "o", "r", "y">>,
       <<"t", "o", "u", "c", "h", "g", "r", "a", "s", "s">>,
       <<"t", "r", "i", "v", "i", "a">>,
       <<"i", "m", "a", "g", "e">> >>

BuiltinIds ==
    <<"about", "inputs", "joke", "nickname", "story", "touchgrass", "trivia", "image">>

HelpName == <<"h", "e", "l", "p">>

CommandsName == <<"c", "o", "m", "m", "a", "n", "d", "s">>

RECURSIVE RegisterAll(_, _)
RegisterAll(hs, i) ==
    IF i > Len(BuiltinNames) THEN hs
    ELSE RegisterAll(Register(hs, BuiltinNames[i], BuiltinIds[i]).handlers, i + 1)

\* register_builtins(registry, openai_service)
RegisterBuiltins ==
    AddAlias(AddAlias(RegisterAll(NoHandlers, 1), HelpName, BuiltinNames[2]).handlers,
             CommandsName, BuiltinNames[2]).handlers

\* dispatch(ctx, text): [raised, reply, invoked, arg, hist, calls]; invoked
\* is the id of the handler called, "none" when none was.
Invoked(id, arg, r) ==
    [raised |-> r.raised, reply |-> r.reply, invoked |-> id, arg |-> arg,
     hist |-> r.hist, calls |-> r.calls]

\* A faulty dispatch: it looks the handler up without asking whether the
\* name is registered, so an unknown name is a lookup error.
DispatchParsedUnknownRaises(hs, h, p, ai) ==
    IF ~Truthy(p.cmd)
    THEN [raised |-> FALSE, reply |-> NoneVal, invoked |-> "none", arg |-> p.arg,
          hist |-> h, calls |-> 0]
    ELSE IF p.cmd \notin DOMAIN hs
    THEN [raised |-> TRUE, reply |-> NoneVal, invoked |-> "none", arg |-> p.arg,
          hist |-> h, calls |-> 0]
    ELSE Invoked(hs[p.cmd], p.arg, Handler(hs[p.cmd], h, p.arg, ai))

\* A faulty dispatch: a handler's error is caught and answered with None.
DispatchParsedSwallows(hs, h, p, ai) ==
    IF ~Truthy(p.cmd) \/ p.cmd \notin DOMAIN hs
    THEN [raised |-> FALSE, reply |-> NoneVal, invoked |-> "none", arg |-> p.arg,
          hist |-> h, calls |-> 0]
    ELSE IF Handler(hs[p.cmd], h, p.arg, ai).raised
    THEN [raised |-> FALSE, reply |-> NoneVal, invoked |-> hs[p.cmd], arg |-> p.arg,
          hist |-> h, calls |-> Handler(hs[p.cmd], h, p.arg, ai).calls]
    ELSE Invoked(hs[p.cmd], p.arg, Handler(hs[p.cmd], h, p.arg, ai))

DispatchParsed(hs, h, p, ai) ==
    IF ~Truthy(p.cmd) \/ p.cmd \notin DOMAIN hs
    THEN [raised |-> FALSE, reply |-> NoneVal, invoked |-> "none", arg |-> p.arg,
          hist |-> h, calls |-> 0]
    ELSE Invoked(hs[p.cmd], p.arg, Handler(hs[p.cmd], h, p.arg, ai))

Dispatch(hs, ps, h, text, ai) == DispatchParsed(hs, h, Parse(ps, text), ai)

(***************************************************************************)
(* EventSubChatBot: the REST helpers.                                      *)
(***************************************************************************)
FreshnessWindow == 15

BotUserId == <<"4", "2">>

NoMap == [k \in {} |-> <<>>]

NoCache == [k \in {} |-> [is_live |-> FALSE, checked_at |-> 0]]

\* What the platform answers to the batched user lookup: an HTTP error, or
\* the users it knows among the logins asked for.
UserId(login) == <<"i", "d">> \o login

ResolveOutcomes(logins) ==
    {[http_error |-> TRUE, known |-> {}]}
        \cup {[http_error |-> FALSE, known |-> k] :
                k \in SUBSET {logins[i] : i \in 1..Len(logins)}}

\* The dict built from the lookup's answer.
UsersById(known) ==
    [l \in {Lower(u) : u \in known} |-> UserId(CHOOSE u \in known : Lower(u) = l)]

\* The logins printed as not resolved.
Missing(logins, ids) == SelectSeq(logins, LAMBDA l : l \notin DOMAIN ids)

\* A faulty _resolve_logins_to_ids(): it reports no login as unresolved.
ResolveLoginsReportsNone(logins, resp) ==
    IF logins = <<>>
    THEN [raised |-> FALSE, login_to_id |-> NoMap, asked |-> <<>>, missing |-> <<>>]
    ELSE IF resp.http_error
    THEN [raised |-> TRUE, login_to_id |-> NoMap, asked |-> <<logins>>,
          missing |-> <<>>]
    ELSE [raised |-> FALSE, login_to_id |-> UsersById(resp.known),
          asked |-> <<logins>>, missing |-> <<>>]

\* _resolve_logins_to_ids(): [raised, login_to_id, asked, missing]; asked
\* is the sequence of GET /users requests made, each the logins it names.
ResolveLogins(logins, resp) ==
    IF logins = <<>>
    THEN [raised |-> FALSE, login_to_id |-> NoMap, asked |-> <<>>, missing |-> <<>>]
    ELSE IF resp.http_error
    THEN [raised |-> TRUE, login_to_id |-> NoMap, asked |-> <<logins>>,
          missing |-> <<>>]
    ELSE [raised |-> FALSE, login_to_id |-> UsersById(resp.known),
          asked |-> <<logins>>,
          missing |-> Missing(logins, UsersById(resp.known))]

\* What the platform answers to one subscription request.
SubscribeOutcomes == {"created", "http_error", "no_response", "bad_body"}

SubId(login) == <<"s", "u", "b">> \o login

\* _subscribe_chat_for(login): [raised, requested, sub_ids]
SubscribeChatFor(login, ids, subs, outcome) ==
    IF login \notin DOMAIN ids \/ ~Truthy(ids[login])
    THEN [raised |-> FALSE, requested |-> FALSE, sub_ids |-> subs]
    ELSE IF outcome = "created"
    THEN [raised |-> FALSE, requested |-> TRUE,
          sub_ids |-> MapPut(subs, login, SubId(login))]
    ELSE [raised |-> TRUE, requested |-> TRUE, sub_ids |-> subs]

\* What the platform answers to the stream status lookup.
LookupOutcomes == {"live", "offline", "error"}

\* A faulty live check: a lookup that fails evicts the entry it found stale.
IsChannelLiveEvictsOnFailure(cache, bid, t, lookup) ==
    IF bid \in DOMAIN cache /\ t - cache[bid].checked_at < FreshnessWindow
    THEN [raised |-> FALSE, value |-> cache[bid].is_live, looked_up |-> FALSE,
          cache |-> cache]
    ELSE IF lookup = "error"
    THEN [raised |-> TRUE, value |-> FALSE, looked_up |-> TRUE,
          cache |-> [b \in DOMAIN cache \ {bid} |-> cache[b]]]
    ELSE [raised |-> FALSE, value |-> (lookup = "live"), looked_up |-> TRUE,
          cache |-> MapPut(cache, bid, [is_live |-> (lookup = "live"),
                                        checked_at |-> t])]

\* A faulty live check: what it looks up is returned and not kept.
IsChannelLiveNotKept(cache, bid, t, lookup) ==
    IF bid \in DOMAIN cache /\ t - cache[bid].checked_at < FreshnessWindow
    THEN [raised |-> FALSE, value |-> cache[bid].is_live, looked_up |-> FALSE,
          cache |-> cache]
    ELSE IF lookup = "error"
    THEN [raised |-> TRUE, value |-> FALSE, looked_up |-> TRUE, cache |-> cache]
    ELSE [raised |-> FALSE, value |-> (lookup = "live"), looked_up |-> TRUE,
          cache |-> cache]

\* _is_channel_live(broadcaster_id): [raised, value, looked_up, cache]
IsChannelLive(cache, bid, t, lookup) ==
    IF bid \in DOMAIN cache /\ t - cache[bid].checked_at < FreshnessWindow
    THEN [raised |-> FALSE, value |-> cache[bid].is_live, looked_up |-> FALSE,
          cache |-> cache]
    ELSE IF lookup = "error"
    THEN [raised |-> TRUE, value |-> FALSE, looked_up |-> TRUE, cache |-> cache]
    ELSE [raised |-> FALSE, value |-> (lookup = "live"), looked_up |-> TRUE,
          cache |-> MapPut(cache, bid, [is_live |-> (lookup = "live"),
                                        checked_at |-> t])]

\* What the platform answers to the message POST: status 0 stands for no
\* response at all (requests.post raised); json_ok says whether the body
\* parses as JSON.
SendOutcomes ==
    { [status |-> 200, json_ok |-> TRUE],
      [status |-> 304, json_ok |-> TRUE],
      [status |-> 400, json_ok |-> TRUE],
      [status |-> 0, json_ok |-> FALSE] }

\* send_message(broadcaster_id, sender_id, message): [raised, logged];
\* logged says whether SEND ERROR was printed.
SendMessage(resp) ==
    IF resp.status = 0
    THEN [raised |-> TRUE, logged |-> FALSE]
    ELSE [raised |-> (resp.status >= 400 /\ resp.status < 600) \/ ~resp.json_ok,
          logged |-> resp.status >= 400]

(***************************************************************************)
(* The chat-message bridge and handle_chat_message.                        *)
(*                                                                         *)
(* A step record says what one iteration of the receive loop did; the      *)
(* operators below return [step, cache, hist].                             *)
(***************************************************************************)
NoStep ==
    [mtype |-> "none", sub |-> "none", bid |-> <<>>, text |-> <<>>,
     malformed |-> FALSE, on_chat |-> FALSE, raised |-> "none",
     logged |-> FALSE, bridged |-> FALSE, looked_up |-> FALSE, live |-> "unknown",
     suppressed |-> FALSE, dispatched |-> FALSE, dispatch_raised |-> FALSE,
     invoked |-> "none", reply |-> NoneVal, caught |-> "none", sends |-> <<>>,
     since |-> -1, prev_live |-> "unknown"]

\* The keys _on_chat_message and the bridge read, in the order they read them.
RequiredKeys ==
    <<"broadcaster_user_login", "broadcaster_user_id", "chatter_user_login",
      "message", "text">>

\* The first key the event lacks, "none" when it has them all.
KeyError(event) ==
    IF \E i \in 1..Len(RequiredKeys) : RequiredKeys[i] \in event.missing
    THEN RequiredKeys[CHOOSE i \in 1..Len(RequiredKeys) :
            /\ RequiredKeys[i] \in event.missing
            /\ \A j \in 1..(i - 1) : RequiredKeys[j] \notin event.missing]
    ELSE "none"

\* A faulty reply step: it sends whatever dispatch returned unless that is
\* None, the empty string included.
ReplyUnlessNone(step, bid, d, cache, resp, sm) ==
    IF d.reply # NoneVal
    THEN [step |-> [step EXCEPT
                       !.sends = <<[broadcaster_id |-> bid, sender_id |-> BotUserId,
                                    message |-> d.reply, status |-> resp.status,
                                    raised |-> sm.raised, logged |-> sm.logged]>>,
                       !.caught = IF sm.raised THEN "send" ELSE "none"],
          cache |-> cache, hist |-> d.hist]
    ELSE [step |-> step, cache |-> cache, hist |-> d.hist]

\* handle_chat_message from the reply on: the send, and its failure caught.
Reply(step, bid, d, cache, resp, sm) ==
    IF Truthy(d.reply)
    THEN [step |-> [step EXCEPT
                       !.sends = <<[broadcaster_id |-> bid, sender_id |-> BotUserId,
                                    message |-> d.reply, status |-> resp.status,
                                    raised |-> sm.raised, logged |-> sm.logged]>>,
                       !.caught = IF sm.raised THEN "send" ELSE "none"],
          cache |-> cache, hist |-> d.hist]
    ELSE [step |-> step, cache |-> cache, hist |-> d.hist]

\* A faulty dispatch step: the handler's error is not caught.
DispatchedUncaught(step, bid, d, cache, resp) ==
    IF d.raised
    THEN [step |-> [step EXCEPT !.dispatched = TRUE, !.invoked = d.invoked,
                                !.dispatch_raised = TRUE, !.raised = "Exception"],
          cache |-> cache, hist |-> d.hist]
    ELSE Reply([step EXCEPT !.dispatched = TRUE, !.invoked = d.invoked,
                            !.reply = d.reply],
               bid, d, cache, resp, SendMessage(resp))

\* handle_chat_message from the dispatch on: a handler's error caught.
Dispatched(step, bid, d, cache, resp) ==
    IF d.raised
    THEN [step |-> [step EXCEPT !.dispatched = TRUE, !.invoked = d.invoked,
                                !.dispatch_raised = TRUE, !.caught = "dispatch"],
          cache |-> cache, hist |-> d.hist]
    ELSE Reply([step EXCEPT !.dispatched = TRUE, !.invoked = d.invoked,
                            !.reply = d.reply],
               bid, d, cache, resp, SendMessage(resp))

\* A faulty live guard: it makes the check and answers all the same.
GuardedNoSuppress(step, bid, text, suppress, lv, hs, ps, h, o) ==
    IF lv.raised
    THEN [step |-> [step EXCEPT !.looked_up = lv.looked_up, !.raised = "HTTPError"],
          cache |-> lv.cache, hist |-> h]
    ELSE Dispatched([step EXCEPT !.looked_up = lv.looked_up,
                                 !.live = IF ~suppress THEN "unknown"
                                          ELSE IF lv.value THEN "live"
                                          ELSE "offline"],
                    bid, Dispatch(hs, ps, h, text, o.ai), lv.cache, o.send)

\* handle_chat_message from the live guard on; lv is what the live check
\* gave, when it was made.
Guarded(step, bid, text, suppress, lv, hs, ps, h, o) ==
    IF lv.raised
    THEN [step |-> [step EXCEPT !.looked_up = lv.looked_up, !.raised = "HTTPError"],
          cache |-> lv.cache, hist |-> h]
    ELSE IF suppress /\ lv.value
    THEN [step |-> [step EXCEPT !.looked_up = lv.looked_up, !.live = "live",
                                !.suppressed = TRUE],
          cache |-> lv.cache, hist |-> h]
    ELSE Dispatched([step EXCEPT !.looked_up = lv.looked_up,
                                 !.live = IF ~suppress THEN "unknown"
                                          ELSE IF lv.value THEN "live"
                                          ELSE "offline"],
                    bid, Dispatch(hs, ps, h, text, o.ai), lv.cache, o.send)

\* A faulty handle_chat_message: the live check is made first, whatever
\* the text and whether or not suppression is on.
HandleChatMessageChecksFirst(base, bid, text, suppress, cache, t, hs, ps, h, o) ==
    IF ~Truthy(text)
    THEN [step |-> [base EXCEPT !.looked_up =
                       IsChannelLive(cache, bid, t, o.lookup).looked_up],
          cache |-> IsChannelLive(cache, bid, t, o.lookup).cache, hist |-> h]
    ELSE Guarded(base, bid, text, suppress,
                 IsChannelLive(cache, bid, t, o.lookup), hs, ps, h, o)

\* handle_chat_message(...)
HandleChatMessage(base, bid, text, suppress, cache, t, hs, ps, h, o) ==
    IF ~Truthy(text)
    THEN [step |-> base, cache |-> cache, hist |-> h]
    ELSE Guarded(base, bid, text, suppress,
                 IF suppress
                 THEN IsChannelLive(cache, bid, t, o.lookup)
                 ELSE [raised |-> FALSE, value |-> FALSE, looked_up |-> FALSE,
                       cache |-> cache],
                 hs, ps, h, o)

\* _make_command_bridge(bot)._bridge(event)
Bridge(base, event, suppress, cache, t, hs, ps, h, o) ==
    IF KeyError(event) # "none"
    THEN [step |-> [base EXCEPT !.bridged = TRUE], cache |-> cache, hist |-> h]
    ELSE HandleChatMessage([base EXCEPT !.bridged = TRUE], event.broadcaster_id,
                           event.text, suppress, cache, t, hs, ps, h, o)

\* build_bot() attaches the bridge to the bot it returns.
HasCommandBridge == TRUE

\* A faulty _on_chat_message: the missing key is not caught.
OnChatMessageKeyErrorEscapes(base, event, isactive, suppress, cache, t, hs, ps, h, o) ==
    LET entered == [base EXCEPT !.on_chat = TRUE]
        read == [entered EXCEPT !.bid = event.broadcaster_id, !.text = event.text]
    IN  IF KeyError(event) # "none"
        THEN [step |-> [entered EXCEPT !.malformed = TRUE, !.raised = "KeyError"],
              cache |-> cache, hist |-> h]
        ELSE IF ~isactive
        THEN [step |-> read, cache |-> cache, hist |-> h]
        ELSE IF ~o.log_ok
        THEN [step |-> [read EXCEPT !.raised = "OSError"],
              cache |-> cache, hist |-> h]
        ELSE Bridge([read EXCEPT !.logged = TRUE], event, suppress, cache, t,
                    hs, ps, h, o)

\* A faulty _on_chat_message: the message is logged before the active flag
\* is looked at.
OnChatMessageLogsFirst(base, event, isactive, suppress, cache, t, hs, ps, h, o) ==
    LET entered == [base EXCEPT !.on_chat = TRUE]
        read == [entered EXCEPT !.bid = event.broadcaster_id, !.text = event.text]
    IN  IF KeyError(event) # "none"
        THEN [step |-> [entered EXCEPT !.malformed = TRUE],
              cache |-> cache, hist |-> h]
        ELSE IF ~o.log_ok
        THEN [step |-> [read EXCEPT !.raised = "OSError"],
              cache |-> cache, hist |-> h]
        ELSE IF ~isactive
        THEN [step |-> [read EXCEPT !.logged = TRUE], cache |-> cache, hist |-> h]
        ELSE IF HasCommandBridge
        THEN Bridge([read EXCEPT !.logged = TRUE], event, suppress, cache, t,
                    hs, ps, h, o)
        ELSE [step |-> [read EXCEPT !.logged = TRUE], cache |-> cache, hist |-> h]

\* _on_chat_message(event)
OnChatMessage(base, event, isactive, suppress, cache, t, hs, ps, h, o) ==
    LET entered == [base EXCEPT !.on_chat = TRUE]
        read == [entered EXCEPT !.bid = event.broadcaster_id, !.text = event.text]
    IN  IF KeyError(event) # "none"
        THEN [step |-> [entered EXCEPT !.malformed = TRUE],
              cache |-> cache, hist |-> h]
        ELSE IF ~isactive
        THEN [step |-> read, cache |-> cache, hist |-> h]
        ELSE IF ~o.log_ok
        THEN [step |-> [read EXCEPT !.raised = "OSError"],
              cache |-> cache, hist |-> h]
        ELSE IF HasCommandBridge
        THEN Bridge([read EXCEPT !.logged = TRUE], event, suppress, cache, t,
                    hs, ps, h, o)
        ELSE [step |-> [read EXCEPT !.logged = TRUE], cache |-> cache, hist |-> h]

\* A faulty loop iteration: a notification is handled as a chat message
\* whatever its subscription type.
ProcessFrameAnySubtype(frame, isactive, suppress, cache, t, hs, ps, h, o) ==
    LET base == [NoStep EXCEPT !.mtype = frame.mtype, !.sub = frame.sub]
        skip == [step |-> base, cache |-> cache, hist |-> h]
    IN  IF frame.mtype = "session_keepalive" THEN skip
        ELSE IF frame.mtype = "revocation" THEN skip
        ELSE IF frame.mtype # "notification" THEN skip
        ELSE IF frame.sub = "missing" \/ ~frame.has_event
        THEN [step |-> [base EXCEPT !.raised = "KeyError"],
              cache |-> cache, hist |-> h]
        ELSE OnChatMessage(base, frame.event, isactive, suppress, cache, t,
                           hs, ps, h, o)

\* One iteration of the main loop of _run_ws_loop() on an inbound frame.
ProcessFrame(frame, isactive, suppress, cache, t, hs, ps, h, o) ==
    LET base == [NoStep EXCEPT !.mtype = frame.mtype, !.sub = frame.sub]
        skip == [step |-> base, cache |-> cache, hist |-> h]
    IN  IF frame.mtype = "session_keepalive" THEN skip
        ELSE IF frame.mtype = "revocation" THEN skip
        ELSE IF frame.mtype # "notification" THEN skip
        ELSE IF frame.sub = "missing"
        THEN [step |-> [base EXCEPT !.raised = "KeyError"],
              cache |-> cache, hist |-> h]
        ELSE IF frame.sub # "channel.chat.message" THEN skip
        ELSE IF ~frame.has_event
        THEN [step |-> [base EXCEPT !.raised = "KeyError"],
              cache |-> cache, hist |-> h]
        ELSE OnChatMessage(base, frame.event, isactive, suppress, cache, t,
                           hs, ps, h, o)

(***************************************************************************)
(* EventSubChatBot: start() and _run_ws_loop() up to the main loop.        *)
(***************************************************************************)
\* The resolved logins in the order of the lookup's answer, which follows
\* the order they were asked in.
RECURSIVE KeysInOrder(_, _)
KeysInOrder(logins, ids) ==
    IF logins = <<>> THEN <<>>
    ELSE IF Lower(Head(logins)) \in DOMAIN ids
    THEN <<Lower(Head(logins))>> \o KeysInOrder(Tail(logins), ids)
    ELSE KeysInOrder(Tail(logins), ids)

\* A faulty start(): it connects whether or not a channel was resolved.
StartResultNoChannelCheck(logins, resp, connect_ok) ==
    LET r == ResolveLogins(logins, resp)
    IN  IF r.raised
        THEN [state |-> "Faulted", fault |-> "resolve_error",
              login_to_id |-> NoMap, ws |-> FALSE]
        ELSE IF ~connect_ok
        THEN [state |-> "Faulted", fault |-> "connect_error",
              login_to_id |-> r.login_to_id, ws |-> FALSE]
        ELSE [state |-> "AwaitingWelcome", fault |-> "none",
              login_to_id |-> r.login_to_id, ws |-> TRUE]

\* start() up to the first await on the connection: [state, fault, login_to_id, ws]
StartResult(logins, resp, connect_ok) ==
    LET r == ResolveLogins(logins, resp)
    IN  IF r.raised
        THEN [state |-> "Faulted", fault |-> "resolve_error",
              login_to_id |-> NoMap, ws |-> FALSE]
        ELSE IF DOMAIN r.login_to_id = {}
        THEN [state |-> "Faulted", fault |-> "no_channels",
              login_to_id |-> r.login_to_id, ws |-> FALSE]
        ELSE IF ~connect_ok
        THEN [state |-> "Faulted", fault |-> "connect_error",
              login_to_id |-> r.login_to_id, ws |-> FALSE]
        ELSE [state |-> "AwaitingWelcome", fault |-> "none",
              login_to_id |-> r.login_to_id, ws |-> TRUE]

\* A faulty subscription loop: the first failure ends it.
RECURSIVE SubscribeAllUntilFailure(_, _, _, _, _, _)
SubscribeAllUntilFailure(todo, ids, sid, outcomes, subs, requests) ==
    IF todo = <<>> THEN [sub_ids |-> subs, requests |-> requests]
    ELSE LET login == Head(todo)
             r == SubscribeChatFor(login, ids, subs, outcomes[login])
             issued == IF r.requested
                       THEN Append(requests, [login |-> login,
                                              broadcaster_user_id |-> ids[login],
                                              session_id |-> sid])
                       ELSE requests
         IN  IF r.raised THEN [sub_ids |-> r.sub_ids, requests |-> issued]
             ELSE SubscribeAllUntilFailure(Tail(todo), ids, sid, outcomes,
                                           r.sub_ids, issued)

\* A faulty subscription loop: a request that fails is made once more.
RECURSIVE SubscribeAllRetrying(_, _, _, _, _, _)
SubscribeAllRetrying(todo, ids, sid, outcomes, subs, requests) ==
    IF todo = <<>> THEN [sub_ids |-> subs, requests |-> requests]
    ELSE LET login == Head(todo)
             r == SubscribeChatFor(login, ids, subs, outcomes[login])
             request == [login |-> login, broadcaster_user_id |-> ids[login],
                         session_id |-> sid]
         IN  SubscribeAllRetrying(Tail(todo), ids, sid, outcomes, r.sub_ids,
                                  IF r.requested /\ r.raised
                                  THEN requests \o <<request, request>>
                                  ELSE IF r.requested THEN Append(requests, request)
                                  ELSE requests)

\* The best-effort subscription loop over the resolved logins:
\* [sub_ids, requests]
RECURSIVE SubscribeAll(_, _, _, _, _, _)
SubscribeAll(todo, ids, sid, outcomes, subs, requests) ==
    IF todo = <<>> THEN [sub_ids |-> subs, requests |-> requests]
    ELSE LET login == Head(todo)
             r == SubscribeChatFor(login, ids, subs, outcomes[login])
         IN  SubscribeAll(Tail(todo), ids, sid, outcomes, r.sub_ids,
                          IF r.requested
                          THEN Append(requests, [login |-> login,
                                                 broadcaster_user_id |-> ids[login],
                                                 session_id |-> sid])
                          ELSE requests)

Subscribed(sid, r) ==
    [state |-> "Listening", fault |-> "none", session_id |-> sid,
     sub_ids |-> r.sub_ids, requests |-> r.requests]

\* A faulty first-frame step: it subscribes whatever the first frame is.
WelcomeResultUnchecked(frame, logins, ids, subs, outcomes) ==
    Subscribed(frame.sid,
               SubscribeAll(KeysInOrder(logins, ids), ids, frame.sid,
                            outcomes, subs, <<>>))

\* _run_ws_loop() from the first frame to the main loop:
\* [state, fault, session_id, sub_ids, requests]
WelcomeResult(frame, logins, ids, subs, outcomes) ==
    IF frame.mtype # "session_welcome"
    THEN [state |-> "Faulted", fault |-> "first_frame", session_id |-> NoneVal,
          sub_ids |-> subs, requests |-> <<>>]
    ELSE Subscribed(frame.sid,
                    SubscribeAll(KeysInOrder(logins, ids), ids, frame.sid,
                                 outcomes, subs, <<>>))

\* stop(): [closed, ws, raised]; close_ok says whether ws.close() returns.
StopResult(held, close_ok) ==
    IF ~held THEN [closed |-> FALSE, ws |-> held, raised |-> FALSE]
    ELSE IF close_ok THEN [closed |-> TRUE, ws |-> FALSE, raised |-> FALSE]
    ELSE [closed |-> FALSE, ws |-> held, raised |-> TRUE]

NoShutdown ==
    [done |-> FALSE, held |-> FALSE, close_ok |-> TRUE, closed |-> FALSE,
     raised |-> FALSE]

\* A faulty shutdown: what stop() raises reaches the caller of run().
ShutdownResultRaises(held, close_ok) ==
    [done |-> TRUE, held |-> held, close_ok |-> close_ok,
     closed |-> StopResult(held, close_ok).closed,
     raised |-> StopResult(held, close_ok).raised]

\* The finally block of run(): stop() is called and what it raises is
\* passed over.
ShutdownResult(held, close_ok) ==
    [done |-> TRUE, held |-> held, close_ok |-> close_ok,
     closed |-> StopResult(held, close_ok).closed,
     raised |-> FALSE]

(***************************************************************************)
(* The inputs of the model.                                                *)
(***************************************************************************)
LoginA == <<"a">>

LoginB == <<"b">>

ConfiguredLogins == {<<>>, <<LoginA>>, <<LoginA, LoginB>>}

\* The platform names each session it welcomes anew.
FirstSessionId == <<"s", "1">>

LaterSessionId == <<"s", "2">>

Dollar == <<"$">>

EventTexts ==
    { <<>>,
      <<"h", "i">>,
      Dollar \o BuiltinNames[1],
      Dollar \o BuiltinNames[3] }

NoEvent ==
    [missing |-> {}, channel_login |-> <<>>, broadcaster_id |-> <<>>,
     user_login |-> <<>>, text |-> <<>>]

\* The chat events the platform pushes: those of the channels the session
\* holds a subscription for.
Events(subs, ids) ==
    {[missing |-> {}, channel_login |-> l, broadcaster_id |-> ids[l],
      user_login |-> <<"u">>, text |-> t] : l \in DOMAIN subs, t \in EventTexts}

\* The same events lacking one of the keys the code reads.
MalformedEvents(subs, ids) ==
    {[missing |-> {RequiredKeys[i]}, channel_login |-> l,
      broadcaster_id |-> ids[l], user_login |-> <<"u">>, text |-> <<"h", "i">>] :
        i \in 1..Len(RequiredKeys), l \in DOMAIN subs}

Notification(sub, has_event, event) ==
    [mtype |-> "notification", sid |-> <<>>, sub |-> sub, has_event |-> has_event,
     event |-> event]

\* The frames that lead to no call outside the session.
ControlFrames(sid, subs, ids) ==
    {[mtype |-> m, sid |-> sid, sub |-> "none", has_event |-> FALSE,
      event |-> NoEvent] :
        m \in {"session_welcome", "session_keepalive", "revocation", "unknown"}}
        \cup {Notification("missing", FALSE, NoEvent),
              Notification("channel.follow", TRUE, NoEvent),
              Notification("channel.chat.message", FALSE, NoEvent)}
        \cup {Notification("channel.chat.message", TRUE, e) :
                e \in MalformedEvents(subs, ids)}

ChatFrames(subs, ids) ==
    {Notification("channel.chat.message", TRUE, e) : e \in Events(subs, ids)}

\* The outcomes of the calls one chat message can lead to, in the order the
\* calls are made: the log write, the status lookup, the backend call, the
\* message POST.  A call that fails ends the processing, so the outcomes of
\* the calls after it are not drawn.
DefaultBackend ==
    [chat |-> NoneVal,
     image |-> [result |-> NoneVal, err |-> NoneVal, raises |-> FALSE]]

DefaultSend == [status |-> 200, json_ok |-> TRUE]

DefaultOracle ==
    [log_ok |-> TRUE, lookup |-> "offline", ai |-> DefaultBackend,
     send |-> DefaultSend]

BackendChoices == {[DefaultBackend EXCEPT !.chat = c] : c \in ChatOutcomes}

Oracles ==
    {[DefaultOracle EXCEPT !.log_ok = FALSE]}
        \cup {[DefaultOracle EXCEPT !.lookup = l] : l \in {"error", "live"}}
        \cup {[DefaultOracle EXCEPT !.ai = a, !.send = s] :
                a \in BackendChoices, s \in SendOutcomes}

(***************************************************************************)
(* The session: the state after build_bot(), and one action per step of    *)
(* start(), of the receive loop and of the control helpers.                *)
(***************************************************************************)
NoLookups == [b \in {} |-> [at |-> 0, live |-> "unknown"]]

NoOutcomes == [l \in {} |-> "none"]

NoPushes == [joke |-> <<>>, story |-> <<>>, trivia |-> <<>>, nickname |-> <<>>]

NoResolveLog == [asked |-> <<>>, missing |-> <<>>]

\* The receive loop before a frame has arrived: it stands at ws.recv().
IdleLoop ==
    [arrived |-> 0, inbox |-> <<>>, pc |-> "recv", current |-> 0,
     inflight |-> {}, replies |-> <<>>]

\* What one direct call of the registry or of a handler was given and gave.
NoRegCall ==
    [op |-> "none", text |-> <<>>, prefix |-> NoneVal, name |-> NoneVal,
     given |-> <<>>, target |-> NoneVal, handler |-> "none",
     before |-> NoHandlers, cmd |-> NoneVal, arg |-> <<>>, error |-> "none",
     reply |-> NoneVal, invoked |-> "none", calls |-> 0,
     out |-> DefaultBackend.image, listed |-> <<>>]

\* The historical bot of main.py after construction: active, no command
\* task created, no reply sent, no chat message seen.
NoMain == [active |-> TRUE, tasks |-> <<>>, sent |-> <<>>, seen |-> 0]

Constructed ==
    /\ state = "Disconnected"
    /\ fault = "none"
    /\ channel_logins \in ConfiguredLogins
    /\ login_to_id = NoMap
    /\ ws = FALSE
    /\ session_id = NoneVal
    /\ sub_ids = NoMap
    /\ sub_requests = <<>>
    /\ first_frame = "none"
    /\ sub_outcomes = NoOutcomes
    /\ active = TRUE
    /\ suppress_when_live \in BOOLEAN
    /\ live_cache = NoCache
    /\ now = 0
    /\ last = NoStep
    /\ resolve_log = NoResolveLog
    /\ loop = IdleLoop
    /\ shutdown = NoShutdown
    /\ main = NoMain

Init ==
    /\ Constructed
    /\ handlers = RegisterBuiltins
    /\ prefixes = <<Dollar>>
    /\ hist = EmptyHist
    /\ reg_last = NoRegCall
    /\ pushed = NoPushes
    /\ lookups = NoLookups

registryVars == <<handlers, prefixes, reg_last>>

Started(r) ==
    /\ state' = r.state
    /\ fault' = r.fault
    /\ login_to_id' = r.login_to_id
    /\ ws' = r.ws

\* start(): resolve the logins, refuse to go on without a channel, connect.
Start ==
    /\ state = "Disconnected"
    /\ \E resp \in ResolveOutcomes(channel_logins), connect_ok \in BOOLEAN :
          /\ Started(StartResult(channel_logins, resp, connect_ok))
          /\ resolve_log' = [asked |-> ResolveLogins(channel_logins, resp).asked,
                             missing |-> ResolveLogins(channel_logins, resp).missing]
    /\ UNCHANGED <<channel_logins, session_id, sub_ids, sub_requests, first_frame,
                   sub_outcomes, active, suppress_when_live, live_cache, now,
                   last, hist>>
    /\ UNCHANGED <<registryVars, pushed, loop>>
    /\ UNCHANGED <<main, lookups, shutdown>>

Welcomed(r) ==
    /\ state' = r.state
    /\ fault' = r.fault
    /\ session_id' = r.session_id
    /\ sub_ids' = r.sub_ids
    /\ sub_requests' = r.requests

\* The first frame arrives: the welcome check and the subscription loop.
FirstFrame ==
    /\ state = "AwaitingWelcome"
    /\ \E frame \in ControlFrames(FirstSessionId, sub_ids, login_to_id),
          outcomes \in [DOMAIN login_to_id -> SubscribeOutcomes] :
          /\ Welcomed(WelcomeResult(frame, channel_logins, login_to_id, sub_ids,
                                    outcomes))
          /\ first_frame' = frame.mtype
          /\ sub_outcomes' = IF frame.mtype = "session_welcome"
                             THEN outcomes ELSE NoOutcomes
    /\ UNCHANGED <<channel_logins, login_to_id, ws, active, suppress_when_live,
                   live_cache, now, last, hist>>
    /\ UNCHANGED <<registryVars, pushed, loop>>
    /\ UNCHANGED <<main, lookups, resolve_log, shutdown>>

\* The step of a live check, with how long before it the status of its
\* channel was last looked up, -1 for never, and what that lookup gave.
Timed(step, seen, t) ==
    IF (step.live # "unknown" \/ step.looked_up) /\ step.bid \in DOMAIN seen
    THEN [step EXCEPT !.since = t - seen[step.bid].at,
                      !.prev_live = seen[step.bid].live]
    ELSE step

\* The lookups answered so far, after a step.
Seen(step, seen, t) ==
    IF step.looked_up /\ step.raised = "none"
    THEN MapPut(seen, step.bid, [at |-> t, live |-> step.live])
    ELSE seen

\* A faulty handling: a reply sent switches the bot off for a cooldown.
ActiveAfterCooldown(step, isactive) ==
    IF \E i \in 1..Len(step.sends) : ~step.sends[i].raised THEN FALSE ELSE isactive

\* self._active after one frame: neither _on_chat_message() nor the bridge
\* nor handle_chat_message() calls set_active() or activation_timer().
ActiveAfter(step, isactive) == isactive

\* A frame arrives in the main loop and is processed to the end.
Processed(r) ==
    /\ active' = ActiveAfter(r.step, active)
    /\ last' = Timed(r.step, lookups, now)
    /\ lookups' = Seen(r.step, lookups, now)
    /\ live_cache' = r.cache
    /\ hist' = r.hist
    /\ state' = IF r.step.raised = "none" THEN "Listening" ELSE "Faulted"
    /\ fault' = IF r.step.raised = "none" THEN fault ELSE "loop_error"

\* A faulty main loop: a welcome frame read while listening replaces the
\* session id.
SessionIdAfterAdopts(frame, sid) ==
    IF frame.mtype = "session_welcome" THEN frame.sid ELSE sid

\* self._session_id after one frame of the main loop: the loop assigns it
\* nowhere, a session_welcome is a frame of another type.
SessionIdAfter(frame, sid) == sid

Receive(frame, o) ==
    /\ session_id' = SessionIdAfter(frame, session_id)
    /\ Processed(ProcessFrame(frame, active, suppress_when_live, live_cache, now,
                              handlers, prefixes, hist, o))
    /\ UNCHANGED <<channel_logins, login_to_id, ws, sub_ids,
                   sub_requests, first_frame, sub_outcomes,
                   suppress_when_live, now, resolve_log, shutdown, main>>
    /\ UNCHANGED <<registryVars, pushed, loop>>

RecvFrame ==
    /\ state = "Listening"
    /\ Generated(hist) < MaxGenerated
    /\ \/ \E frame \in ControlFrames(LaterSessionId, sub_ids, login_to_id) :
             Receive(frame, DefaultOracle)
       \/ \E frame \in ChatFrames(sub_ids, login_to_id), o \in Oracles :
             Receive(frame, o)

\* A faulty loop: when the connection drops it connects again and waits
\* for a welcome frame.
RecvFailedReconnects ==
    [state |-> "AwaitingWelcome", fault |-> "connection_lost"]

\* ws.recv() raises: the exception leaves the loop, the connection's
\* context and start(); nothing connects again.
RecvFailed == [state |-> "Faulted", fault |-> "connection_lost"]

\* The connection drops.
ConnectionLost ==
    /\ state \in {"AwaitingWelcome", "Listening"}
    /\ state' = RecvFailed.state
    /\ fault' = RecvFailed.fault
    /\ UNCHANGED <<channel_logins, login_to_id, ws, session_id, sub_ids,
                   sub_requests, first_frame, sub_outcomes, active,
                   suppress_when_live, live_cache, now, last, hist>>
    /\ UNCHANGED <<registryVars, pushed, loop>>
    /\ UNCHANGED <<main, lookups, resolve_log, shutdown>>

\* stop()
Stop ==
    /\ ws
    /\ ws' = StopResult(ws, TRUE).ws
    /\ state' = IF state \in {"AwaitingWelcome", "Listening"} THEN "Closed" ELSE state
    /\ UNCHANGED <<fault, channel_logins, login_to_id, session_id, sub_ids,
                   sub_requests, first_frame, sub_outcomes, active,
                   suppress_when_live, live_cache, now, last, hist>>
    /\ UNCHANGED <<registryVars, pushed, loop>>
    /\ UNCHANGED <<main, lookups, resolve_log, shutdown>>

\* run() ends: start() has returned or raised, and the finally block
\* calls stop().
Shutdown ==
    /\ state \in {"Faulted", "Closed"}
    /\ ~shutdown.done
    /\ \E close_ok \in BOOLEAN :
          /\ shutdown' = ShutdownResult(ws, close_ok)
          /\ ws' = StopResult(ws, close_ok).ws
    /\ UNCHANGED <<state, fault, channel_logins, login_to_id, session_id, sub_ids,
                   sub_requests, first_frame, sub_outcomes, active,
                   suppress_when_live, live_cache, now, last, hist>>
    /\ UNCHANGED <<registryVars, pushed, loop>>
    /\ UNCHANGED <<main, lookups, resolve_log>>

\* set_active(status)
SetActive ==
    /\ state = "Listening"
    /\ \E status \in BOOLEAN : active' = status
    /\ active' # active
    /\ UNCHANGED <<state, fault, channel_logins, login_to_id, ws, session_id,
                   sub_ids, sub_requests, first_frame, sub_outcomes,
                   suppress_when_live, live_cache, now, last, hist>>
    /\ UNCHANGED <<registryVars, pushed, loop>>
    /\ UNCHANGED <<main, lookups, resolve_log, shutdown>>

\* Time passes; how much matters from the first lookup on.  The clock is
\* read just inside the freshness window of a lookup made at 0, and at the
\* end of the window or later.
ClockReadings == {FreshnessWindow - 1, MaxClock}

Tick ==
    /\ state = "Listening"
    /\ live_cache # NoCache
    /\ \E t \in ClockReadings : t > now /\ now' = t
    /\ UNCHANGED <<state, fault, channel_logins, login_to_id, ws, session_id,
                   sub_ids, sub_requests, first_frame, sub_outcomes, active,
                   suppress_when_live, live_cache, last, hist>>
    /\ UNCHANGED <<registryVars, pushed, loop>>
    /\ UNCHANGED <<main, lookups, resolve_log, shutdown>>

Next ==
    \/ Start
    \/ FirstFrame
    \/ RecvFrame
    \/ ConnectionLost
    \/ Stop
    \/ Shutdown
    \/ SetActive
    \/ Tick

Spec == Init /\ [][Next]_vars

(***************************************************************************)
(* The registry on its own: a fresh CommandRegistry(prefixes), and one     *)
(* action per call of register, add_alias and dispatch.                    *)
(***************************************************************************)
TextAlphabet == {"$", "a", "A", " "}

\* Command lines built the way a chatter writes them: a prefix, a name, a
\* separator and an argument.
CommandLines ==
    {p \o n \o sep \o arg :
        p \in {Dollar, Dollar \o Dollar},
        n \in {<<"a">>, <<"A">>},
        sep \in {<<" ">>, <<"\t", " ">>},
        arg \in {<<>>, <<"a">>, <<"A", " ", "a">>}}

Texts == SeqsUpTo(TextAlphabet, MaxTextLen) \cup CommandLines

\* The arguments a command line is made with.
Args == {<<>>, <<"a">>, <<" ", "a">>, <<"a", " ">>, <<"A", " ", "a">>, <<"\t">>}

RawNames == {<<>>, <<" ">>, <<"a">>, <<" ", "A", " ">>, <<"a", " ", "a">>}

PrefixConfigs == {<<Dollar>>, <<Dollar, Dollar \o Dollar>>, <<Dollar \o Dollar, Dollar>>}

RegHandlerIds == {"about", "image"}

RegBackends ==
    {[DefaultBackend EXCEPT !.image = i] :
        i \in {[result |-> HostedUrl, err |-> NoneVal, raises |-> FALSE],
               [result |-> NoneVal, err |-> NoneVal, raises |-> TRUE]}}

\* The backends a handler is called with as a method: every pair image()
\* can be given.
CallBackends == {[DefaultBackend EXCEPT !.image = i] : i \in ImageOutcomes}

InitReg ==
    /\ state = "Disconnected"
    /\ fault = "none"
    /\ channel_logins = <<LoginA>>
    /\ login_to_id = NoMap
    /\ ws = FALSE
    /\ session_id = NoneVal
    /\ sub_ids = NoMap
    /\ sub_requests = <<>>
    /\ first_frame = "none"
    /\ sub_outcomes = NoOutcomes
    /\ active = TRUE
    /\ suppress_when_live = TRUE
    /\ live_cache = NoCache
    /\ now = 0
    /\ last = NoStep
    /\ handlers = NoHandlers
    /\ prefixes \in PrefixConfigs
    /\ hist = EmptyHist
    /\ reg_last = NoRegCall
    /\ pushed = NoPushes
    /\ lookups = NoLookups
    /\ resolve_log = NoResolveLog
    /\ loop = IdleLoop
    /\ shutdown = NoShutdown
    /\ main = NoMain

Registered(call, r) ==
    /\ handlers' = r.handlers
    /\ reg_last' = [call EXCEPT !.error = r.error]

\* registry.register(name, handler)
RegRegister ==
    /\ \E name \in RawNames, h \in RegHandlerIds :
          Registered([NoRegCall EXCEPT !.op = "register", !.text = name,
                                       !.handler = h, !.before = handlers],
                     Register(handlers, name, h))
    /\ UNCHANGED <<prefixes, hist>>
    /\ UNCHANGED <<sessionVars, pushed, lookups>>

\* registry.add_alias(alias, target)
RegAddAlias ==
    /\ \E alias \in RawNames, target \in RawNames :
          Registered([NoRegCall EXCEPT !.op = "add_alias", !.text = alias,
                                       !.target = target, !.before = handlers],
                     AddAlias(handlers, alias, target))
    /\ UNCHANGED <<prefixes, hist>>
    /\ UNCHANGED <<sessionVars, pushed, lookups>>

Parsed(call, p) ==
    reg_last' = [call EXCEPT !.cmd = p.cmd, !.arg = p.arg]

ParseCall(text) == [NoRegCall EXCEPT !.op = "parse", !.text = text]

\* registry.parse(text): on any text, and on the command lines made of a
\* configured prefix, a registered name, a space and an argument.
RegParse ==
    /\ \/ \E text \in Texts : Parsed(ParseCall(text), Parse(prefixes, text))
       \/ \E i \in 1..Len(prefixes), n \in DOMAIN handlers, a \in Args :
             Parsed([ParseCall(prefixes[i] \o n \o <<" ">> \o a) EXCEPT
                        !.prefix = prefixes[i], !.name = n, !.given = a],
                    Parse(prefixes, prefixes[i] \o n \o <<" ">> \o a))
    /\ UNCHANGED <<handlers, prefixes, hist>>
    /\ UNCHANGED <<sessionVars, pushed, lookups>>

DispatchedReg(text, p, d, ai) ==
    /\ hist' = d.hist
    /\ reg_last' = [NoRegCall EXCEPT !.op = "dispatch", !.text = text,
                                     !.before = handlers, !.out = ai.image,
                                     !.cmd = p.cmd, !.arg = p.arg,
                                     !.error = IF d.raised THEN "raised" ELSE "none",
                                     !.reply = d.reply, !.invoked = d.invoked,
                                     !.calls = d.calls]

\* registry.dispatch(ctx, text)
RegDispatch ==
    /\ \E text \in Texts, ai \in RegBackends :
          DispatchedReg(text, Parse(prefixes, text),
                        Dispatch(handlers, prefixes, hist, text, ai), ai)
    /\ UNCHANGED <<handlers, prefixes>>
    /\ UNCHANGED <<sessionVars, pushed, lookups>>

Called(call, r) ==
    /\ hist' = r.hist
    /\ reg_last' = [call EXCEPT !.error = IF r.raised THEN "raised" ELSE "none",
                                !.reply = r.reply, !.calls = r.calls]

\* A handler called as the method it is: cmds.image(ctx, arg).
RegCall ==
    /\ \E id \in RegHandlerIds, a \in Args, ai \in CallBackends :
          Called([NoRegCall EXCEPT !.op = "call", !.handler = id, !.invoked = id,
                                   !.given = a, !.out = ai.image],
                 Handler(id, hist, a, ai))
    /\ UNCHANGED <<handlers, prefixes>>
    /\ UNCHANGED <<sessionVars, pushed, lookups>>

\* registry.list_commands()
RegList ==
    /\ reg_last' = [NoRegCall EXCEPT !.op = "list", !.before = handlers,
                                     !.listed = ListCommands(handlers)]
    /\ UNCHANGED <<handlers, prefixes, hist>>
    /\ UNCHANGED <<sessionVars, pushed, lookups>>

NextReg ==
    \/ RegRegister
    \/ RegAddAlias
    \/ RegParse
    \/ RegDispatch
    \/ RegCall
    \/ RegList

SpecReg == InitReg /\ [][NextReg]_vars

(***************************************************************************)
(* The builtin commands on their own: BuiltinCommands(ai, max_history) and *)
(* one action per call of a generative text command.                       *)
(***************************************************************************)
TextKinds == {"joke", "story", "trivia", "nickname"}

Pushes(ps) == Len(ps.joke) + Len(ps.story) + Len(ps.trivia) + Len(ps.nickname)

\* What chat() answers: a text not given before, the first text again, no
\* content, or an error.
ChatAnswers(ps) ==
    {<<"t", ToString(Pushes(ps) + 1)>>, GeneratedText, <<>>, NoneVal, Raise}

InitHist ==
    /\ Constructed
    /\ suppress_when_live = TRUE
    /\ channel_logins = <<LoginA>>
    /\ handlers = RegisterBuiltins
    /\ prefixes = <<Dollar>>
    /\ hist \in {NewHist(c) : c \in 0..MaxCapacity}
    /\ reg_last = NoRegCall
    /\ pushed = NoPushes
    /\ lookups = NoLookups

\* cmds.joke(ctx, arg), cmds.story(ctx, arg), cmds.trivia(ctx, arg) or
\* cmds.nickname(ctx, arg), with what the backend answers.
HistCall ==
    /\ Pushes(pushed) < MaxPushes
    /\ \E kind \in TextKinds, out \in ChatAnswers(pushed) :
          /\ Called([NoRegCall EXCEPT !.op = "call", !.handler = kind,
                                      !.invoked = kind, !.given = out],
                    Handler(kind, hist, <<>>, [DefaultBackend EXCEPT !.chat = out]))
          /\ pushed' = IF Truthy(out) /\ out # Raise
                       THEN [pushed EXCEPT ![kind] = Append(@, out)]
                       ELSE pushed
    /\ UNCHANGED <<handlers, prefixes>>
    /\ UNCHANGED <<sessionVars, lookups>>

NextHist == HistCall

SpecHist == InitHist /\ [][NextHist]_vars

(***************************************************************************)
(* The receive loop step by step: frames arrive at the connection, the     *)
(* loop reads one at ws.recv() and the handling of a chat message goes     *)
(* through its awaits, the live check, the dispatch and the send.          *)
(***************************************************************************)
FrameKinds == {"chat", "keepalive"}

\* A faulty loop: it reads the next frame while a chat message is handled.
RecvReachedWhileHandling(pc) == pc # "ended"

\* The loop stands at ws.recv(): _on_chat_message() is awaited, so the
\* iteration before has returned.
RecvReached(pc) == pc = "recv"

\* The handling of the current message returns, or leaves with an error.
Returned(l, pc) ==
    [l EXCEPT !.pc = pc, !.inflight = @ \ {l.current}, !.current = 0]

InitLoop ==
    /\ state = "Listening"
    /\ fault = "none"
    /\ channel_logins = <<LoginA>>
    /\ login_to_id = UsersById({LoginA})
    /\ ws = TRUE
    /\ session_id = FirstSessionId
    /\ sub_ids = MapPut(NoMap, LoginA, SubId(LoginA))
    /\ sub_requests = <<[login |-> LoginA, broadcaster_user_id |-> UserId(LoginA),
                         session_id |-> FirstSessionId]>>
    /\ first_frame = "session_welcome"
    /\ sub_outcomes = [l \in {LoginA} |-> "created"]
    /\ active = TRUE
    /\ suppress_when_live = TRUE
    /\ live_cache = NoCache
    /\ now = 0
    /\ last = NoStep
    /\ resolve_log = [asked |-> <<channel_logins>>, missing |-> <<>>]
    /\ loop = IdleLoop
    /\ shutdown = NoShutdown
    /\ main = NoMain
    /\ handlers = RegisterBuiltins
    /\ prefixes = <<Dollar>>
    /\ hist = EmptyHist
    /\ reg_last = NoRegCall
    /\ pushed = NoPushes
    /\ lookups = NoLookups

loopRest ==
    <<state, fault, channel_logins, login_to_id, ws, session_id, sub_ids,
      sub_requests, first_frame, sub_outcomes, active, suppress_when_live,
      live_cache, now, last, resolve_log, handlers, prefixes, hist, reg_last,
      pushed, lookups, shutdown, main>>

\* The platform delivers a frame to the connection.
LoopArrive ==
    /\ loop.pc # "ended"
    /\ loop.arrived < MaxFrames
    /\ \E kind \in FrameKinds :
          loop' = [loop EXCEPT !.arrived = @ + 1,
                               !.inbox = Append(@, [id |-> loop.arrived + 1,
                                                    kind |-> kind])]
    /\ UNCHANGED loopRest

\* raw = await ws.recv(): the oldest frame waiting is read; a chat message
\* enters _on_chat_message(), any other frame ends the iteration.
LoopRecv ==
    /\ RecvReached(loop.pc)
    /\ loop.inbox # <<>>
    /\ loop' = IF Head(loop.inbox).kind = "chat"
               THEN [loop EXCEPT !.inbox = Tail(@), !.pc = "live_check",
                                 !.current = Head(loop.inbox).id,
                                 !.inflight = @ \cup {Head(loop.inbox).id}]
               ELSE [loop EXCEPT !.inbox = Tail(@), !.pc = "recv"]
    /\ UNCHANGED loopRest

\* await is_live_fn(broadcaster_id): live ends the handling, an error
\* leaves the loop.
LoopLiveCheck ==
    /\ loop.pc = "live_check"
    /\ \E lookup \in LookupOutcomes :
          loop' = CASE lookup = "offline" -> [loop EXCEPT !.pc = "dispatch"]
                    [] lookup = "live" -> Returned(loop, "recv")
                    [] lookup = "error" -> Returned(loop, "ended")
    /\ UNCHANGED loopRest

\* await registry.dispatch(ctx, text): a reply goes on to the send, no
\* reply or a handler error ends the handling.
LoopDispatch ==
    /\ loop.pc = "dispatch"
    /\ \E replied \in BOOLEAN :
          loop' = IF replied THEN [loop EXCEPT !.pc = "send"]
                  ELSE Returned(loop, "recv")
    /\ UNCHANGED loopRest

\* api_send(broadcaster_id, BOT_USER_ID, reply): sent or failed, the
\* handling ends.
LoopSend ==
    /\ loop.pc = "send"
    /\ \E sent \in BOOLEAN :
          loop' = Returned([loop EXCEPT !.replies =
                               IF sent THEN Append(@, loop.current) ELSE @],
                           "recv")
    /\ UNCHANGED loopRest

NextLoop ==
    \/ LoopArrive
    \/ LoopRecv
    \/ LoopLiveCheck
    \/ LoopDispatch
    \/ LoopSend

SpecLoop == InitLoop /\ [][NextLoop]_vars

(***************************************************************************)
(* The historical bot of main.py: its receive loop creates one task per    *)
(* command and reads on. The calls a task awaits block without suspending, *)
(* so a task runs from its start to asyncio.sleep() in one step, and the   *)
(* loop and the tasks interleave at ws.recv() and at the sleep.            *)
(***************************************************************************)
CommandOutcomes == {"reply", "none", "live", "error"}

\* The tasks that stand in the sleep of activation_timer().
Sleeping(m) == {t \in DOMAIN m.tasks : m.tasks[t] = "sleeping"}

\* _on_chat_message(event): an inactive bot returns, a text that is no
\* command returns, a command gets a task of its own.
MainOnChatMessage(m, is_command) ==
    IF m.active /\ is_command
    THEN [m EXCEPT !.seen = @ + 1, !.tasks = Append(@, "created")]
    ELSE [m EXCEPT !.seen = @ + 1]

\* _run_command() of task t up to its first suspension: a live channel, an
\* error and an empty reply end the task; a reply is sent, and
\* activation_timer() clears the flag and sleeps.
MainRunCommand(m, t, outcome) ==
    IF outcome = "reply"
    THEN [m EXCEPT !.sent = Append(@, [task |-> t, cooling |-> Sleeping(m)]),
                   !.active = FALSE,
                   !.tasks[t] = "sleeping"]
    ELSE [m EXCEPT !.tasks[t] = "done"]

\* activation_timer() of task t after its sleep: it sets the flag.
MainActivationTimer(m, t) == [m EXCEPT !.active = TRUE, !.tasks[t] = "done"]

InitMain ==
    /\ Init
    /\ channel_logins = <<LoginA>>
    /\ suppress_when_live = TRUE

mainRest ==
    <<state, fault, channel_logins, login_to_id, ws, session_id, sub_ids,
      sub_requests, first_frame, sub_outcomes, active, suppress_when_live,
      live_cache, now, last, resolve_log, handlers, prefixes, hist, reg_last,
      pushed, lookups, loop, shutdown>>

\* The loop reads a chat message and hands it to _on_chat_message().
MainRecv ==
    /\ main.seen < MaxMessages
    /\ \E is_command \in BOOLEAN : main' = MainOnChatMessage(main, is_command)
    /\ UNCHANGED mainRest

\* The event loop runs a task it has not started yet.
MainTaskRuns ==
    /\ \E t \in DOMAIN main.tasks, outcome \in CommandOutcomes :
          /\ main.tasks[t] = "created"
          /\ main' = MainRunCommand(main, t, outcome)
    /\ UNCHANGED mainRest

\* The sleep of a task ends.
MainTimerEnds ==
    /\ \E t \in Sleeping(main) : main' = MainActivationTimer(main, t)
    /\ UNCHANGED mainRest

NextMain ==
    \/ MainRecv
    \/ MainTaskRuns
    \/ MainTimerEnds

SpecMain == InitMain /\ [][NextMain]_vars

(***************************************************************************)
(* The properties of the session and of the registry.                      *)
(***************************************************************************)
\* C1: once the receive loop runs, nothing that happens while one inbound
\* chat message is processed ends it: whatever the log write, the live
\* lookup, the dispatch and the send do, the iteration raises nothing.
C1_ProcessingNeverEndsLoop ==
    last.on_chat => (last.raised = "none" /\ fault # "loop_error")

\* C2: a chat notification whose event lacks one of the required fields is
\* dropped without raising: no chat-log line, no dispatch, no send, and the
\* loop is not ended by it.
C2_MalformedEventDropped ==
    last.malformed =>
        /\ last.raised = "none"
        /\ fault # "loop_error"
        /\ ~last.logged
        /\ ~last.bridged
        /\ ~last.dispatched
        /\ last.invoked = "none"
        /\ last.sends = <<>>

C2_Witness ==
    /\ last.malformed
    /\ last.sub = "channel.chat.message"
    /\ state = "Listening"

\* C3: when a handler raises during dispatch the bridge catches the error:
\* no reply is sent, nothing propagates to the loop, the loop stays alive.
C3_HandlerErrorCaught ==
    last.dispatch_raised =>
        /\ last.raised = "none"
        /\ fault # "loop_error"
        /\ last.caught = "dispatch"
        /\ last.sends = <<>>

C3_Witness ==
    /\ last.dispatch_raised
    /\ last.invoked = "joke"
    /\ state = "Listening"

\* C4: a reply whose POST is answered with a status outside 200..299 is
\* logged and raised by send_message, and the bridge catches it: nothing
\* propagates and the send is not made again.
C4_NonSuccessSendRaised ==
    \A i \in 1..Len(last.sends) :
        (last.sends[i].status # 0 /\ last.sends[i].status \notin 200..299) =>
            /\ last.sends[i].raised
            /\ last.sends[i].logged
            /\ last.caught = "send"
            /\ last.raised = "none"
            /\ Len(last.sends) = 1

\* C5: a first frame other than session_welcome is fatal: no subscription
\* request is issued, no session id is recorded, Listening is never reached.
C5_FirstFrameMustBeWelcome ==
    first_frame \notin {"none", "session_welcome"} =>
        /\ state = "Faulted"
        /\ fault = "first_frame"
        /\ sub_requests = <<>>
        /\ sub_ids = NoMap
        /\ session_id = NoneVal

C5_Witness ==
    /\ first_frame = "session_keepalive"
    /\ state = "Faulted"
    /\ ws

\* C6: a subscription request that fails is skipped: for any failing subset
\* of the resolved channels, failing all of them included, a request is
\* still issued for each resolved channel, exactly the channels whose
\* request succeeded are recorded in login -> subscription id, and the
\* session enters Listening.
C6_SubscriptionFailuresSkipped ==
    first_frame = "session_welcome" =>
        /\ {sub_requests[i].login : i \in 1..Len(sub_requests)} = DOMAIN login_to_id
        /\ Len(sub_requests) = Cardinality(DOMAIN login_to_id)
        /\ DOMAIN sub_ids = {l \in DOMAIN login_to_id : sub_outcomes[l] = "created"}
        /\ session_id = FirstSessionId
        /\ state # "AwaitingWelcome"
        /\ fault \in {"none", "loop_error", "connection_lost"}
        /\ (ws /\ fault = "none") => state = "Listening"

C6_Witness ==
    /\ state = "Listening"
    /\ last = NoStep
    /\ \E l \in DOMAIN login_to_id : sub_outcomes[l] = "http_error"
    /\ \E l \in DOMAIN login_to_id : sub_outcomes[l] = "created"

\* C7: when identity resolution yields no channel, because none is
\* configured or because no configured login resolved, start() aborts: the
\* connection is never opened and no subscription request is issued.
C7_NoChannelsAbortsStart ==
    (state # "Disconnected" /\ DOMAIN login_to_id = {}) =>
        /\ state = "Faulted"
        /\ fault \in {"no_channels", "resolve_error"}
        /\ ~ws
        /\ first_frame = "none"
        /\ sub_requests = <<>>

C7_Witness ==
    /\ fault = "no_channels"
    /\ channel_logins # <<>>
    /\ state = "Faulted"

\* C8: with suppression on and the live check giving true, the message is
\* dropped: dispatch is never invoked and nothing is sent.
C8_LiveChannelSuppressed ==
    (suppress_when_live /\ last.live = "live") =>
        /\ ~last.dispatched
        /\ last.invoked = "none"
        /\ last.sends = <<>>
        /\ last.raised = "none"

C8_Witness ==
    /\ last.live = "live"
    /\ last.looked_up
    /\ last.text = Dollar \o BuiltinNames[1]
    /\ state = "Listening"

\* C9: handle_chat_message calls send exactly once, with the message's
\* broadcaster id, the bot's own user id and the reply, when the message is
\* not suppressed and dispatch returns a non-empty reply; in every other
\* case it calls send zero times.
C9_ReplySentOnce ==
    IF last.dispatched /\ ~last.dispatch_raised /\ Truthy(last.reply)
    THEN /\ Len(last.sends) = 1
         /\ last.sends[1].broadcaster_id = last.bid
         /\ last.sends[1].sender_id = BotUserId
         /\ last.sends[1].message = last.reply
    ELSE last.sends = <<>>

C9_Witness ==
    /\ Len(last.sends) = 1
    /\ last.reply = AboutReply
    /\ last.sends[1].status = 200
    /\ last.bid = UserId(LoginB)

\* C10: dispatch yields no reply and no error, and invokes no handler,
\* whenever the text does not parse to a command or parses to a name that
\* is not registered, whatever the text.
C10_UnknownTextIsQuiet ==
    (reg_last.op = "dispatch"
        /\ (~Truthy(reg_last.cmd) \/ reg_last.cmd \notin DOMAIN handlers)) =>
        /\ reg_last.reply = NoneVal
        /\ reg_last.error = "none"
        /\ reg_last.invoked = "none"

C10_Witness ==
    /\ reg_last.op = "dispatch"
    /\ Truthy(reg_last.cmd)
    /\ reg_last.cmd \notin DOMAIN handlers
    /\ DOMAIN handlers # {}

\* C11 as stated: for every configured prefix, every registered name and
\* every argument, parse(prefix + name + " " + arg) returns (name, arg).
C11_ParseReturnsNameAndArg ==
    (reg_last.op = "parse" /\ reg_last.name # NoneVal) =>
        /\ reg_last.cmd = reg_last.name
        /\ reg_last.arg = reg_last.given

\* C11 amended: when the prefix is the first configured prefix the line
\* starts with, parse(prefix + name + " " + arg) returns (name, arg trimmed
\* of its leading and trailing whitespace) for every registered name that
\* is one non-empty token; for a registered name that is empty or holds
\* whitespace the command returned is not that name.
C11_ParseOfCommandLine ==
    (reg_last.op = "parse" /\ reg_last.name # NoneVal) =>
        LET matching == {i \in 1..Len(prefixes) : StartsWith(reg_last.text, prefixes[i])}
            first == CHOOSE i \in matching : \A j \in matching : i <= j
            token == /\ reg_last.name # <<>>
                     /\ \A k \in 1..Len(reg_last.name) : ~IsSpace(reg_last.name[k])
        IN  prefixes[first] = reg_last.prefix =>
                IF token
                THEN /\ reg_last.cmd = reg_last.name
                     /\ reg_last.arg = Strip(reg_last.given)
                ELSE reg_last.cmd # reg_last.name

C11_Witness ==
    /\ reg_last.op = "parse"
    /\ reg_last.name = <<"a">>
    /\ reg_last.given = <<"a", " ">>
    /\ reg_last.cmd = <<"a">>
    /\ reg_last.arg = <<"a">>

\* C12 as stated: parse gives (None, "") for every text that starts with
\* no configured prefix and for every text that is a configured prefix
\* followed by nothing or by whitespace only.
C12_NoPrefixOrBarePrefix ==
    (reg_last.op = "parse"
        /\ \/ \A i \in 1..Len(prefixes) : ~StartsWith(reg_last.text, prefixes[i])
           \/ \E i \in 1..Len(prefixes) :
                 /\ StartsWith(reg_last.text, prefixes[i])
                 /\ Strip(SubSeq(reg_last.text, Len(prefixes[i]) + 1,
                                 Len(reg_last.text))) = <<>>) =>
        (reg_last.cmd = NoneVal /\ reg_last.arg = <<>>)

\* C12 amended: parse gives (None, "") for every text that starts with no
\* configured prefix and for every text that is the first configured
\* prefix it starts with followed by nothing or by whitespace only.
C12_NoPrefixOrBareFirstPrefix ==
    (reg_last.op = "parse"
        /\ \/ \A i \in 1..Len(prefixes) : ~StartsWith(reg_last.text, prefixes[i])
           \/ \E i \in 1..Len(prefixes) :
                 /\ StartsWith(reg_last.text, prefixes[i])
                 /\ \A j \in 1..(i - 1) : ~StartsWith(reg_last.text, prefixes[j])
                 /\ Strip(SubSeq(reg_last.text, Len(prefixes[i]) + 1,
                                 Len(reg_last.text))) = <<>>) =>
        (reg_last.cmd = NoneVal /\ reg_last.arg = <<>>)

C12_Witness ==
    /\ reg_last.op = "parse"
    /\ prefixes = <<Dollar \o Dollar, Dollar>>
    /\ reg_last.text = Dollar \o Dollar
    /\ reg_last.cmd = NoneVal

\* C13: when several configured prefixes are literal prefixes of the text,
\* parse strips the one that comes first in the configured order, not the
\* longest: the result is what parsing the text after that prefix gives.
C13_FirstConfiguredPrefixWins ==
    reg_last.op = "parse" =>
        LET matching == {i \in 1..Len(prefixes) : StartsWith(reg_last.text, prefixes[i])}
        IN  Cardinality(matching) > 1 =>
                \E i \in matching :
                    /\ \A j \in matching : i <= j
                    /\ ParseRest(Strip(SubSeq(reg_last.text, Len(prefixes[i]) + 1,
                                              Len(reg_last.text))))
                          = [cmd |-> reg_last.cmd, arg |-> reg_last.arg]

C13_Witness ==
    /\ reg_last.op = "parse"
    /\ prefixes = <<Dollar, Dollar \o Dollar>>
    /\ StartsWith(reg_last.text, Dollar \o Dollar)
    /\ reg_last.cmd = <<"$", "a">>

\* C14: after add_alias(a, b) succeeds, dispatch(ctx, prefix + a) gives
\* what dispatch(ctx, prefix + b) gives, for every configured prefix and
\* the same backend answer: the same handler invoked, the same result.
C14_AliasDispatchesAsTarget ==
    (reg_last.op = "add_alias" /\ reg_last.error = "none") =>
        \A i \in 1..Len(prefixes), ai \in RegBackends :
            Dispatch(handlers, prefixes, hist, prefixes[i] \o reg_last.text, ai)
                = Dispatch(handlers, prefixes, hist, prefixes[i] \o reg_last.target, ai)

\* C15: add_alias(alias, target) with a target that is not registered
\* fails with KeyError and leaves the registry as it was: no key added, no
\* mapping altered.
C15_UnknownTargetRejected ==
    (reg_last.op = "add_alias"
        /\ Lower(Strip(reg_last.target)) \notin DOMAIN reg_last.before) =>
        /\ reg_last.error = "KeyError"
        /\ handlers = reg_last.before

C15_Witness ==
    /\ reg_last.op = "add_alias"
    /\ reg_last.error = "KeyError"
    /\ reg_last.text = <<"a">>
    /\ reg_last.target = <<"a", " ", "a">>
    /\ DOMAIN handlers = {<<"a">>}

\* C16: register(name, handler) stores the handler under the trimmed,
\* lower-cased name; a name empty after trimming is an error and leaves
\* the registry as it was.
C16_RegisterNormalisesName ==
    reg_last.op = "register" =>
        IF Strip(reg_last.text) = <<>>
        THEN /\ reg_last.error = "ValueError"
             /\ handlers = reg_last.before
        ELSE /\ reg_last.error = "none"
             /\ DOMAIN handlers =
                    DOMAIN reg_last.before \cup {Lower(Strip(reg_last.text))}
             /\ handlers[Lower(Strip(reg_last.text))] = reg_last.handler

C16_Witness ==
    /\ reg_last.op = "register"
    /\ reg_last.text = <<" ", "A", " ">>
    /\ reg_last.before = NoHandlers
    /\ DOMAIN handlers = {<<"a">>}

\* C17: registering under a name already registered replaces the handler
\* without an error: afterwards the name resolves to the new handler only,
\* and no other name's mapping has changed.
C17_ReRegisterReplaces ==
    (reg_last.op = "register"
        /\ Lower(Strip(reg_last.text)) \in DOMAIN reg_last.before) =>
        /\ reg_last.error = "none"
        /\ DOMAIN handlers = DOMAIN reg_last.before
        /\ handlers[Lower(Strip(reg_last.text))] = reg_last.handler
        /\ \A k \in DOMAIN reg_last.before \ {Lower(Strip(reg_last.text))} :
              handlers[k] = reg_last.before[k]
        /\ \A ai \in RegBackends :
              DispatchParsed(handlers, hist,
                             [cmd |-> Lower(Strip(reg_last.text)), arg |-> <<>>],
                             ai).invoked = reg_last.handler

\* C18: each recent-output history holds at most its capacity of entries,
\* and a push at capacity evicts the oldest entry first: the history is
\* always the most recent successful outputs of its command, in the order
\* they were given.
C18_HistoryKeepsMostRecent ==
    \A kind \in TextKinds :
        /\ Len(hist[kind]) <= hist.maxlen
        /\ Len(hist[kind]) <= Len(pushed[kind])
        /\ Len(hist[kind]) < hist.maxlen => Len(hist[kind]) = Len(pushed[kind])
        /\ hist[kind] = SubSeq(pushed[kind],
                               Len(pushed[kind]) - Len(hist[kind]) + 1,
                               Len(pushed[kind]))

C18_Witness ==
    /\ hist.maxlen = 3
    /\ Len(pushed.joke) = 4
    /\ \A i, j \in 1..4 : i # j => pushed.joke[i] # pushed.joke[j]
    /\ hist.joke = Tail(pushed.joke)

\* C19: a status check made less than 15 seconds after the last lookup for
\* the same channel id makes no lookup and gives the value that lookup
\* gave, so the two checks make exactly one lookup; a check made 15 seconds
\* or more after the last lookup, or with none before it, makes one.
C19_LiveCacheWindow ==
    (last.live # "unknown" \/ last.looked_up) =>
        IF last.since >= 0 /\ last.since < FreshnessWindow
        THEN ~last.looked_up /\ last.live = last.prev_live
        ELSE last.looked_up

C19_Witness ==
    /\ last.since = FreshnessWindow - 1
    /\ ~last.looked_up
    /\ last.live = "offline"
    /\ last.dispatched

\* C20: the image command given a description that is empty after trimming
\* returns the usage hint and does not call the backend, whether it is
\* called as a method or reached through dispatch.
C20_EmptyDescriptionGetsUsageHint ==
    (reg_last.op \in {"call", "dispatch"}
        /\ reg_last.invoked = "image"
        /\ Strip(IF reg_last.op = "call" THEN reg_last.given ELSE reg_last.arg) = <<>>) =>
        /\ reg_last.reply = ImageUsageReply
        /\ reg_last.calls = 0
        /\ reg_last.error = "none"

C20_Witness ==
    /\ reg_last.op = "dispatch"
    /\ reg_last.invoked = "image"
    /\ reg_last.text = <<"$", "a", " ">>
    /\ reg_last.reply = ImageUsageReply

\* C21: the image command given a description that is not empty after
\* trimming calls the backend once and, when the call returns, answers by
\* this priority: an error gives the error reply with the error's text, also
\* when a result came with it; else a result that starts with http gives
\* the hosted reply with the result; else a result gives the local-path
\* reply with the result; else the no-image reply.
C21_ImageReplyPriority ==
    (reg_last.op = "call"
        /\ reg_last.invoked = "image"
        /\ Truthy(Strip(reg_last.given))
        /\ ~reg_last.out.raises) =>
        /\ reg_last.calls = 1
        /\ reg_last.error = "none"
        /\ Truthy(reg_last.reply)
        /\ reg_last.reply =
              (IF reg_last.out.err # NoneVal
               THEN <<"error: ">> \o reg_last.out.err
               ELSE IF reg_last.out.result = NoneVal THEN NoImageReply
               ELSE IF SubSeq(reg_last.out.result, 1, 4) = <<"h", "t", "t", "p">>
               THEN <<"creation: ">> \o reg_last.out.result
               ELSE <<"saved locally: ">> \o reg_last.out.result)

C21_Witness ==
    /\ reg_last.op = "call"
    /\ reg_last.invoked = "image"
    /\ reg_last.given = <<"A", " ", "a">>
    /\ reg_last.out.err = ImageError
    /\ reg_last.out.result = HostedUrl
    /\ reg_last.reply = <<"error: ">> \o ImageError

\* C22: there is no automatic reconnect: once the connection was closed by
\* stop() or has dropped, no step of the session opens a connection, waits
\* for a welcome frame or listens again, and none issues a subscription
\* request or takes a session id.
C22_NoReconnect ==
    [][(state = "Closed" \/ fault = "connection_lost") =>
          /\ state' \notin {"AwaitingWelcome", "Listening"}
          /\ sub_requests' = sub_requests
          /\ session_id' = session_id
          /\ ws' => ws]_vars

C22_Witness ==
    /\ state = "Faulted"
    /\ fault = "connection_lost"
    /\ sub_requests # <<>>
    /\ ~ws

\* C23: start() asks for the identities in one batched lookup that names
\* every configured login.  When the lookup is answered, every configured
\* login is either a key of the mapping, with the one id the platform gave
\* for it, or is no key and is reported as not resolved; the mapping has no
\* other key; a login that is not resolved does not end the session while
\* another one is; and every subscription request is for a key of the
\* mapping and carries its id.
C23_PartialMapping ==
    LET configured == {channel_logins[i] : i \in 1..Len(channel_logins)}
        reported == {resolve_log.missing[i] : i \in 1..Len(resolve_log.missing)}
    IN  /\ state # "Disconnected" =>
              /\ resolve_log.asked =
                    (IF channel_logins = <<>> THEN <<>> ELSE <<channel_logins>>)
              /\ fault # "resolve_error" =>
                    /\ DOMAIN login_to_id \subseteq configured
                    /\ reported = configured \ DOMAIN login_to_id
                    /\ \A l \in DOMAIN login_to_id : login_to_id[l] = UserId(l)
                    /\ fault = "no_channels" => DOMAIN login_to_id = {}
        /\ \A i \in 1..Len(sub_requests) :
              /\ sub_requests[i].login \in DOMAIN login_to_id
              /\ sub_requests[i].broadcaster_user_id =
                    login_to_id[sub_requests[i].login]

C23_Witness ==
    /\ state = "Listening"
    /\ channel_logins = <<LoginA, LoginB>>
    /\ resolve_log.asked = <<channel_logins>>
    /\ resolve_log.missing = <<LoginB>>
    /\ DOMAIN login_to_id = {LoginA}
    /\ Len(sub_requests) = 1

\* C24: list_commands() returns the keys registered at the call, aliases
\* among them, each once and in ascending order; and after a successful
\* add_alias(a, b) the key of a is in what list_commands() returns.
C24_ListIsSortedKeys ==
    /\ reg_last.op = "list" =>
          /\ {reg_last.listed[i] : i \in 1..Len(reg_last.listed)} = DOMAIN handlers
          /\ Len(reg_last.listed) = Cardinality(DOMAIN handlers)
          /\ \A i \in 1..Len(reg_last.listed), j \in 1..Len(reg_last.listed) :
                i < j => StrLess(reg_last.listed[i], reg_last.listed[j])
    /\ (reg_last.op = "add_alias" /\ reg_last.error = "none") =>
          \E i \in 1..Len(ListCommands(handlers)) :
              ListCommands(handlers)[i] = Lower(Strip(reg_last.text))

C24_Witness ==
    /\ reg_last.op = "list"
    /\ reg_last.listed = << <<>>, <<"a">>, <<"a", " ", "a">> >>
    /\ handlers[<<>>] = handlers[<<"a">>]

\* C25: commands are processed one at a time: the loop does not read the
\* next frame while a chat message is handled (live check, dispatch,
\* send), so at most one message is in flight, every frame still waiting
\* arrived after it, and the replies are sent in the order their
\* notifications arrived in.
C25_OneCommandInFlight ==
    /\ Cardinality(loop.inflight) <= 1
    /\ loop.pc \in {"live_check", "dispatch", "send"} =>
          loop.inflight = {loop.current}
    /\ loop.pc \in {"recv", "ended"} => loop.inflight = {}
    /\ \A k \in 1..Len(loop.inbox) : \A m \in loop.inflight :
          m < loop.inbox[k].id
    /\ \A i \in 1..Len(loop.replies), j \in 1..Len(loop.replies) :
          i < j => loop.replies[i] < loop.replies[j]

C25_Witness ==
    /\ loop.pc = "send"
    /\ loop.current = 2
    /\ loop.replies = <<1>>
    /\ Len(loop.inbox) = 1
    /\ loop.inbox[1].kind = "chat"

\* C26: subscription requests come after the handshake: none is issued
\* before the welcome frame of the connection was read, every request
\* carries the session id of that welcome frame, which is the one the
\* session holds, also after a later frame named another, and no channel
\* is asked for twice on the connection.
C26_RequestsAfterWelcome ==
    /\ first_frame # "session_welcome" => sub_requests = <<>>
    /\ \A i \in 1..Len(sub_requests) :
          /\ sub_requests[i].session_id = FirstSessionId
          /\ sub_requests[i].session_id = session_id
    /\ \A i \in 1..Len(sub_requests), j \in 1..Len(sub_requests) :
          i # j => sub_requests[i].login # sub_requests[j].login

C26_Witness ==
    /\ state = "Listening"
    /\ Len(sub_requests) = 2
    /\ last.mtype = "session_welcome"
    /\ session_id = FirstSessionId

\* C27: in the main loop a frame that is no notification of the
\* chat-message subscription type (a keepalive, a revocation, a frame of
\* another or of an unknown message type, a notification of another
\* subscription type) does not reach _on_chat_message() or the bridge and
\* changes nothing: the session id, the subscription mapping, the live
\* cache, the active flag and the histories stay as they are, no
\* subscription request is issued, also not after a revocation, and the loop
\* goes on listening.
C27_OtherFramesChangeNothing ==
    [][(/\ last' # last
        /\ \/ last'.mtype \in {"session_keepalive", "revocation", "unknown",
                               "session_welcome"}
           \/ /\ last'.mtype = "notification"
              /\ last'.sub \notin {"channel.chat.message", "missing"}) =>
          /\ state = "Listening"
          /\ state' = "Listening"
          /\ fault' = fault
          /\ ~last'.on_chat
          /\ ~last'.bridged
          /\ last'.raised = "none"
          /\ last'.sends = <<>>
          /\ UNCHANGED <<session_id, sub_ids, sub_requests, login_to_id, ws,
                         live_cache, active, hist>>]_vars

C27_Witness ==
    /\ state = "Listening"
    /\ last.mtype = "revocation"
    /\ ~last.on_chat
    /\ DOMAIN sub_ids # {}
    /\ Len(sub_requests) = Cardinality(DOMAIN login_to_id)

\* C28: a live-status lookup that fails while a chat message is handled is
\* contained to that message: no reply is sent for it, nothing is raised
\* into the loop and the loop is not ended by it.
C28_LookupFailureContained ==
    (last.on_chat /\ last.looked_up /\ last.live = "unknown") =>
        /\ last.sends = <<>>
        /\ ~last.dispatched
        /\ last.raised = "none"
        /\ fault # "loop_error"

\* C29: a notification frame that lacks payload.subscription, its type or
\* payload.event is dropped: nothing is raised into the loop, the loop is
\* not ended by it and _on_chat_message() is not reached.
C29_MalformedFrameDropped ==
    (/\ last.mtype = "notification"
     /\ \/ last.sub = "missing"
        \/ last.sub = "channel.chat.message" /\ ~last.on_chat) =>
        /\ last.raised = "none"
        /\ fault # "loop_error"
        /\ ~last.bridged

\* C30: after add_alias(alias, target) succeeds, the alias and the target
\* name the same handler in every later state, whatever register and
\* add_alias calls follow that do not name the alias; stated here of the
\* state after the call that follows the add_alias.
C30_AliasFollowsTarget ==
    [][(/\ reg_last.op = "add_alias"
        /\ reg_last.error = "none"
        /\ reg_last'.op \in {"register", "add_alias"}
        /\ Lower(Strip(reg_last'.text)) # Lower(Strip(reg_last.text))) =>
          /\ Lower(Strip(reg_last.text)) \in DOMAIN handlers'
          /\ Lower(Strip(reg_last.target)) \in DOMAIN handlers'
          /\ handlers'[Lower(Strip(reg_last.text))] =
                handlers'[Lower(Strip(reg_last.target))]]_vars

C32_OwnHistoryOnSuccess ==
    [][LET kind == reg_last'.handler
           out == reg_last'.given
       IN  /\ reg_last'.op = "call"
           /\ kind \in TextKinds
           /\ \A other \in TextKinds \ {kind} : hist'[other] = hist[other]
           /\ hist'.maxlen = hist.maxlen
           /\ IF out = Raise
              THEN /\ hist' = hist
                   /\ reg_last'.error = "raised"
              ELSE IF Truthy(out)
              THEN /\ hist'[kind] = HistAppend(hist[kind], out, hist.maxlen)
                   /\ reg_last'.error = "none"
                   /\ Truthy(reg_last'.reply)
                   /\ SubSeq(reg_last'.reply,
                             Len(reg_last'.reply) - Len(out) + 1,
                             Len(reg_last'.reply)) = out
              ELSE /\ hist' = hist
                   /\ reg_last'.error = "none"
                   /\ ~Truthy(reg_last'.reply)]_vars

C32_Witness ==
    /\ reg_last.op = "call"
    /\ reg_last.handler = "story"
    /\ reg_last.given = NoneVal
    /\ reg_last.reply = NoneVal
    /\ hist.story # <<>>
    /\ hist.joke # <<>>

\* C33: whatever register and add_alias calls were made, every key of the
\* handler mapping is non-empty, trimmed and lower-case, and is the
\* command parse returns for the first prefix followed by the key.
C33_KeysAreReachableTokens ==
    \A k \in DOMAIN handlers :
        /\ k # <<>>
        /\ Strip(k) = k
        /\ Lower(k) = k
        /\ Parse(prefixes, prefixes[1] \o k).cmd = k

\* C34: there is no auto-disable: a step that handles a chat message,
\* whether a reply was sent, none was produced or the handling failed,
\* leaves the active flag as it was; the flag changes only in a step of
\* set_active(), which is what activation_timer() calls, and such a step
\* handles no frame.
C34_NoAutoDisable ==
    [][/\ (last' # last \/ hist' # hist \/ live_cache' # live_cache) =>
             active' = active
       /\ active' # active =>
             UNCHANGED <<state, fault, last, hist, live_cache, lookups>>]_vars

C34_Witness ==
    /\ active
    /\ last.on_chat
    /\ Len(last.sends) = 1
    /\ ~last.sends[1].raised
    /\ state = "Listening"

\* C35: while the active flag is false a well-formed chat-message
\* notification has no effect: nothing is written to the chat log, the
\* bridge is not invoked, no status lookup is made, nothing is dispatched,
\* no reply is sent, nothing is raised, and the live cache and the
\* histories stay as they are.
C35_InactiveIgnoresChat ==
    [][(/\ ~active
        /\ last' # last
        /\ last'.on_chat
        /\ ~last'.malformed) =>
          /\ ~last'.logged
          /\ ~last'.bridged
          /\ ~last'.looked_up
          /\ ~last'.dispatched
          /\ last'.sends = <<>>
          /\ last'.raised = "none"
          /\ state' = "Listening"
          /\ UNCHANGED <<live_cache, hist, active>>]_vars

C35_Witness ==
    /\ ~active
    /\ state = "Listening"
    /\ last.on_chat
    /\ last.text = <<"$", "a", "b", "o", "u", "t">>
    /\ ~last.logged
    /\ ~last.bridged

\* C36: with live suppression off, handling a chat message makes no live
\* check, so no lookup is made and the live cache stays empty, and a
\* message with text is dispatched whatever the platform would say of the
\* channel; and a message whose text is empty returns before any live
\* check, dispatch or send, with suppression on or off.
C36_NoCheckWhenSuppressionOff ==
    /\ ~suppress_when_live =>
          /\ live_cache = NoCache
          /\ lookups = NoLookups
          /\ last.bridged =>
                /\ ~last.looked_up
                /\ last.live = "unknown"
                /\ ~last.suppressed
                /\ last.raised = "none"
                /\ Truthy(last.text) => last.dispatched
    /\ (last.bridged /\ ~last.malformed /\ last.text = <<>>) =>
          /\ ~last.looked_up
          /\ last.live = "unknown"
          /\ ~last.dispatched
          /\ last.sends = <<>>
          /\ last.raised = "none"

C36_Witness ==
    /\ ~suppress_when_live
    /\ last.bridged
    /\ last.dispatched
    /\ last.invoked = "about"
    /\ Len(last.sends) = 1
    /\ ~last.looked_up

\* C37: the session id is set once on a connection, by the welcome frame
\* read first, and does not change after that: a session_welcome frame
\* read while listening is ignored, and every subscription request made
\* names the session id the session holds.
C37_SessionIdSetOnce ==
    [][/\ session_id' # session_id =>
             /\ session_id = NoneVal
             /\ first_frame = "none"
             /\ first_frame' = "session_welcome"
             /\ session_id' = FirstSessionId
       /\ (last' # last /\ last'.mtype = "session_welcome") =>
             /\ state' = "Listening"
             /\ UNCHANGED <<session_id, sub_ids, sub_requests>>
       /\ \A i \in 1..Len(sub_requests') :
             sub_requests'[i].session_id = session_id']_vars

C37_Witness ==
    /\ state = "Listening"
    /\ last.mtype = "session_welcome"
    /\ session_id = FirstSessionId
    /\ DOMAIN sub_ids # {}
    /\ FirstSessionId # LaterSessionId

\* C38: the live cache changes only by a lookup that succeeded, and then
\* only in the entry of the channel id looked up, which becomes the pair
\* of the answer and the time of the check: a lookup that fails leaves the
\* whole cache as it was, so does a check answered from the cache, and the
\* entries of the other channels are never touched.
C38_CacheReplacedByOwnLookup ==
    [][live_cache' # live_cache =>
          /\ last'.looked_up
          /\ last'.raised # "HTTPError"
          /\ last'.live \in {"live", "offline"}
          /\ DOMAIN live_cache' = DOMAIN live_cache \cup {last'.bid}
          /\ live_cache'[last'.bid] =
                [is_live |-> (last'.live = "live"), checked_at |-> now]
          /\ \A b \in DOMAIN live_cache \ {last'.bid} :
                live_cache'[b] = live_cache[b]]_vars

C38_Witness ==
    /\ Cardinality(DOMAIN live_cache) = 2
    /\ \E a \in DOMAIN live_cache, b \in DOMAIN live_cache :
          live_cache[a].checked_at < live_cache[b].checked_at
    /\ last.looked_up
    /\ last.raised = "none"

\* C39: shutdown closes the connection best-effort: stop() with a
\* connection held closes it and then holds none, stop() with none held
\* closes nothing, so a stop after a stop is a no-op, and a close that
\* fails during shutdown is not raised to the caller of run().
C39_ShutdownBestEffort ==
    shutdown.done =>
        /\ ~shutdown.raised
        /\ shutdown.closed = (shutdown.held /\ shutdown.close_ok)
        /\ shutdown.closed => ~ws
        /\ ~shutdown.held => ~ws

C39_Witness ==
    /\ shutdown.done
    /\ shutdown.held
    /\ ~shutdown.close_ok
    /\ ~shutdown.closed
    /\ ~shutdown.raised
    /\ sub_requests # <<>>

\* C40: in the historical bot that runs each command as a task of its own,
\* the bot is inactive for the whole cooldown after every reply: the active
\* flag is false whenever some task's cooldown timer is pending, and no
\* reply is sent while a cooldown is pending.
C40_InactiveDuringCooldown ==
    /\ Sleeping(main) # {} => ~main.active
    /\ \A i \in DOMAIN main.sent : main.sent[i].cooling = {}

====
